---- MODULE Spec2Model ----
(***************************************************************************)
(* CO-PRESENCE: the append-only artifact log (Environment), the content    *)
(* pool (World), the cognitive profile and the Kernel's cycle loop.        *)
(*                                                                         *)
(* Conventions.  An optional Python value is a sequence: <<>> is None and  *)
(* <<v>> is the value v.  A float in [0,1] is an integer number of tenths  *)
(* (0.5 is 5, 1.5 is 15).  A Python object held in a list is named by its  *)
(* position in the log, so a query result is a sequence of positions of    *)
(* cache.  A string that the code formats or searches is a sequence.       *)
(***************************************************************************)
EXTENDS Integers, Sequences, FiniteSets, TLC

VARIABLES
    cache,                    \* Environment._cache
    file,                     \* the lines of artifacts.jsonl
    loaded,                   \* whether _cache is as _load_artifacts built it
    content,                  \* World._content, in insertion order
    by_type,                  \* World._by_type
    content_file,             \* the lines of content.jsonl
    preferences,              \* CognitiveProfile.preferences, per agent
    history,                  \* CognitiveProfile.history, per agent
    profile_file,             \* per agent, the content of its file under profiles/
    raised,                   \* the exception the last call ended with, or <<>>
    perturbation_min,         \* Kernel.perturbation_min
    perturbation_max,         \* Kernel.perturbation_max
    next_perturbation_cycle,  \* Kernel._next_perturbation_cycle
    current_cycle,            \* Kernel.current_cycle
    pc,                       \* where run_cycle stands
    perturbation,             \* run_cycle's local: the payload of this cycle
    chosen,                   \* _generate_perturbation's ptype at the last firing
    raw_output,               \* per agent, think's raw_output in this cycle
    artifacts,                \* run_cycle's locals artifact_a and artifact_b
    returned,                 \* what the last run_cycle returned, or <<>>
    used_cycles,              \* <<process, cycle_id>> of every run_cycle call so far
    calls,                    \* the calls of the run_cycle under way, in order
    think_in,                 \* per agent, the arguments of its last think call
    fired,                    \* the cycles in which _generate_perturbation ran
    base_cycle,               \* the log's latest cycle when the Kernel was built
    clock,                    \* datetime.utcnow, in ticks
    restarts,                 \* times the process was started again
    env_fetched,              \* execute_read_requests: env_traces before dedup
    env_traces,               \* execute_read_requests: the log context returned
    world_content             \* execute_read_requests: the pool context returned

vars == <<cache, file, loaded, content, by_type, content_file, preferences,
          history,
          profile_file, raised,
          perturbation_min, perturbation_max, next_perturbation_cycle,
          current_cycle, pc, perturbation, chosen, raw_output, artifacts, returned,
          used_cycles, calls, think_in, fired, base_cycle, clock, restarts,
          env_fetched, env_traces, world_content>>

envVars == <<cache, file, loaded>>
worldVars == <<content, by_type, content_file>>
profileVars == <<preferences, history, profile_file>>
kernelVars == <<perturbation_min, perturbation_max, next_perturbation_cycle,
                current_cycle, pc, perturbation, chosen, raw_output, artifacts,
                returned, used_cycles, calls, think_in, fired, base_cycle>>
resolveVars == <<env_fetched, env_traces, world_content>>

----------------------------------------------------------------------------
(* Bounds of the model *)

MaxLog == 3          \* appends explored on one log
MaxQueryLog == 2     \* appends explored on a log whose records vary in every filtered field
MaxCycleId == 2      \* cycle numbers of the artifacts handed to append
MaxTs == 1           \* timestamps of the artifacts handed to append
MaxRequests == 2     \* read-requests of one kind in one execute_read_requests call
MaxUpdates == 2      \* CognitiveProfile.update calls explored on one profile
MaxCycle == 5        \* cycles run on one log
MaxGap == 2          \* the largest perturbation_max a Kernel is built with
MaxRestarts == 1     \* times the process is started again on the same data
MaxFaultyCycle == 2  \* cycles run when the think-step and the storage may fail
MaxOldLog == 4       \* records of a log that perturbations are drawn from
MaxSampleLog == 3    \* appends explored on a log that is cut and sampled
MaxPoolFile == 5     \* lines explored in the file of a pool
MaxPool == 4         \* entries added to one pool

----------------------------------------------------------------------------
(* Generic helpers *)

None == <<>>
Some(v) == <<v>>
IsNone(o) == o = <<>>
Val(o) == o[1]

Min(a, b) == IF a <= b THEN a ELSE b
Max(a, b) == IF a >= b THEN a ELSE b

Range(s) == {s[i] : i \in 1..Len(s)}

NoDup(s) == \A i, j \in 1..Len(s) : i # j => s[i] # s[j]

\* Python's s[:n]: the first n items, or all but the last -n when n is negative
Slice(s, n) ==
    IF n >= 0 THEN SubSeq(s, 1, Min(n, Len(s)))
    ELSE SubSeq(s, 1, Max(Len(s) + n, 0))

\* the sequences of k distinct items of s, in any order (random.sample)
Samples(s, k) ==
    {[i \in 1..k |-> s[p[i]]] :
        p \in {q \in [1..k -> 1..Len(s)] : \A i, j \in 1..k : i # j => q[i] # q[j]}}

----------------------------------------------------------------------------
(* Artifact *)

AGENT_A_NAME == "Agent A"
AGENT_B_NAME == "Agent B"
AgentNames == {AGENT_A_NAME, AGENT_B_NAME}

\* agent_name.replace(' ', '_').lower()
IdPrefix(agent_name) ==
    CASE agent_name = "Agent A" -> "agent_a"
      [] agent_name = "Agent B" -> "agent_b"
      [] OTHER -> agent_name

\* strftime('%Y%m%d%H%M%S%f'): the digits of the instant, to the microsecond
Strftime(timestamp) == timestamp

\* Artifact.model_post_init: the id, unless one was given
DerivedId(agent_name, cycle_id, timestamp) ==
    <<IdPrefix(agent_name), cycle_id, Strftime(timestamp)>>

model_post_init(a) ==
    IF IsNone(a.id)
    THEN [a EXCEPT !.id = Some(DerivedId(a.agent_name, a.cycle_id, a.timestamp))]
    ELSE a

\* Step, MetaCognition, ArtifactContent: the content payload.  description,
\* a step's content and uncertainties are strings the code slices or strips:
\* sequences of characters
Step(label, step_content) == [label |-> label, content |-> step_content]

MetaCognition(self_observation, influence_of_other_agent, uncertainties) ==
    [self_observation |-> self_observation,
     influence_of_other_agent |-> influence_of_other_agent,
     uncertainties |-> uncertainties]

ArtifactContent(description, steps, meta_cognition) ==
    [description |-> description, steps |-> steps,
     meta_cognition |-> meta_cognition]

\* Artifact(...): the fields and model_post_init; profile_snapshot is left at
\* its default
Artifact(agent_name, cycle_id, timestamp, artifact_type, artifact, profile_update, id) ==
    model_post_init([agent_name |-> agent_name, cycle_id |-> cycle_id,
                     timestamp |-> timestamp, artifact_type |-> artifact_type,
                     artifact |-> artifact,
                     profile_update |-> profile_update,
                     profile_snapshot |-> None, id |-> id])

\* a content payload whose fields are all given, with `uncertainties` as named
Thought(uncertainties) ==
    ArtifactContent(<<"d">>, <<Step("inference", <<"c">>)>>,
                    MetaCognition("s", "i", uncertainties))

\* ProfileUpdate(proposed_changes, comment); proposed_changes is a dict, held
\* as the sequence of its <<key, value>> items in insertion order
ProfileUpdate(proposed_changes, comment) ==
    [proposed_changes |-> proposed_changes, comment |-> comment]

HasProposedChanges_mut(a) == ~IsNone(a.profile_update)

\* a.profile_update and a.profile_update.proposed_changes
HasProposedChanges(a) ==
    /\ ~IsNone(a.profile_update)
    /\ Val(a.profile_update).proposed_changes # <<>>

\* uncertainties.strip(): a string is a sequence of characters
RECURSIVE Strip(_)
Strip(s) ==
    IF s = <<>> THEN s
    ELSE IF Head(s) = " " THEN Strip(Tail(s))
    ELSE IF s[Len(s)] = " " THEN Strip(SubSeq(s, 1, Len(s) - 1))
    ELSE s

----------------------------------------------------------------------------
(* The persisted form of an artifact: one JSON line *)

\* datetime to its ISO-8601 text and back
IsoFormat(timestamp) == <<"T", timestamp>>
ParseIso(text) == text[2]

\* artifact.model_dump_json()
model_dump_json_mut(a) ==
    [agent_name |-> a.agent_name, cycle_id |-> a.cycle_id,
     timestamp |-> IsoFormat(a.timestamp), artifact_type |-> a.artifact_type,
     artifact |-> a.artifact, profile_update |-> a.profile_update,
     profile_snapshot |-> a.profile_snapshot, id |-> None]

model_dump_json(a) ==
    [agent_name |-> a.agent_name, cycle_id |-> a.cycle_id,
     timestamp |-> IsoFormat(a.timestamp), artifact_type |-> a.artifact_type,
     artifact |-> a.artifact, profile_update |-> a.profile_update,
     profile_snapshot |-> a.profile_snapshot, id |-> a.id]

\* Artifact(**json.loads(line))
ParseLine(line) ==
    [Artifact(line.agent_name, line.cycle_id, ParseIso(line.timestamp),
              line.artifact_type, line.artifact, line.profile_update,
              line.id)
        EXCEPT !.profile_snapshot = line.profile_snapshot]

----------------------------------------------------------------------------
(* Environment *)

\* _load_artifacts: replay the file top to bottom
LoadArtifacts(lines) == [i \in 1..Len(lines) |-> ParseLine(lines[i])]

\* Environment.append: write the line, then cache the artifact
EnvAppend_mut(a) ==
    /\ file' = <<model_dump_json(a)>> \o file
    /\ cache' = <<a>> \o cache
    /\ loaded' = FALSE

EnvAppend(a) ==
    /\ file' = Append(file, model_dump_json(a))
    /\ cache' = Append(cache, a)
    /\ loaded' = FALSE

\* Environment.append when storage may fail: `written` is whether open and
\* write went through; when they raise, the line after them is not reached.
\* A write that fails is taken to leave no part of the line in the file.
append_mut(a, written) ==
    /\ cache' = Append(cache, a)
    /\ file' = IF written THEN Append(file, model_dump_json(a)) ELSE file
    /\ loaded' = FALSE

append(a, written) ==
    IF written THEN EnvAppend(a) ELSE UNCHANGED envVars

\* Environment.get_latest_cycle_id
get_latest_cycle_id_zero(c) == 0

get_latest_cycle_id_mut(c) ==
    IF c = <<>> THEN 0 ELSE c[1].cycle_id

get_latest_cycle_id(c) ==
    IF c = <<>> THEN 0
    ELSE CHOOSE m \in {c[i].cycle_id : i \in 1..Len(c)} :
            \A i \in 1..Len(c) : c[i].cycle_id <= m

\* the filters of Environment.query; the defaults of its signature
NoFilter ==
    [agent_name |-> None, limit |-> None, order |-> "desc",
     artifact_type |-> None, cycle_range |-> None, random_sample |-> None,
     has_uncertainty |-> None, has_profile_update |-> None,
     before_cycle |-> None, after_cycle |-> None]

\* `if agent_name:` is false for None and for the empty string
Truthy(o) == ~IsNone(o) /\ Val(o) # ""

\* the sort key (a.cycle_id, a.timestamp), compared as Python compares tuples
KeyLess_mut(a, b) == a.timestamp < b.timestamp

KeyLess(a, b) ==
    \/ a.cycle_id < b.cycle_id
    \/ a.cycle_id = b.cycle_id /\ a.timestamp < b.timestamp

Sorted_mut(c, s, reverse) == s

\* list.sort(key, reverse): stable in both directions; s holds positions of c
Sorted(c, s, reverse) ==
    LET Before(p, q) ==
            IF reverse THEN KeyLess(c[s[q]], c[s[p]]) ELSE KeyLess(c[s[p]], c[s[q]])
        Rank(p) == Cardinality({q \in 1..Len(s) :
                        Before(q, p) \/ (~Before(p, q) /\ q < p)}) + 1
    IN  [k \in 1..Len(s) |-> s[CHOOSE p \in 1..Len(s) : Rank(p) = k]]

\* Environment.query up to the sort: the filters, one after the other
Filtered_mut(c, f) ==
    LET r0 == [i \in 1..Len(c) |-> i]
        Keep(s, Test(_)) == SelectSeq(s, Test)
        ByAgent(i) == c[i].agent_name = Val(f.agent_name)
        ByType(i) == c[i].artifact_type = Val(f.artifact_type)
        InRange(i) == /\ Val(f.cycle_range)[1] <= c[i].cycle_id
                      /\ c[i].cycle_id <= Val(f.cycle_range)[2]
        IsBefore(i) == c[i].cycle_id < Val(f.before_cycle)
        IsAfter(i) == c[i].cycle_id > Val(f.after_cycle)
        Unc(i) == (Strip(c[i].artifact.meta_cognition.uncertainties) # <<>>) = Val(f.has_uncertainty)
        Upd(i) == HasProposedChanges(c[i]) = Val(f.has_profile_update)
        r1 == IF Truthy(f.agent_name) THEN Keep(r0, ByAgent) ELSE r0
        r2 == IF Truthy(f.artifact_type) THEN Keep(r1, ByType) ELSE r1
        r3 == IF ~IsNone(f.cycle_range) THEN Keep(r2, InRange) ELSE r2
        r4 == IF ~IsNone(f.before_cycle) THEN Keep(r3, IsBefore) ELSE r3
        r5 == IF ~IsNone(f.after_cycle) THEN Keep(r4, IsAfter) ELSE r4
        r6 == IF ~IsNone(f.has_uncertainty) THEN Keep(r5, Unc) ELSE r5
        r7 == IF ~IsNone(f.has_profile_update) THEN Keep(r0, Upd) ELSE r6
    IN  r7

Filtered(c, f) ==
    LET r0 == [i \in 1..Len(c) |-> i]
        Keep(s, Test(_)) == SelectSeq(s, Test)
        ByAgent(i) == c[i].agent_name = Val(f.agent_name)
        ByType(i) == c[i].artifact_type = Val(f.artifact_type)
        InRange(i) == /\ Val(f.cycle_range)[1] <= c[i].cycle_id
                      /\ c[i].cycle_id <= Val(f.cycle_range)[2]
        IsBefore(i) == c[i].cycle_id < Val(f.before_cycle)
        IsAfter(i) == c[i].cycle_id > Val(f.after_cycle)
        Unc(i) == (Strip(c[i].artifact.meta_cognition.uncertainties) # <<>>) = Val(f.has_uncertainty)
        Upd(i) == HasProposedChanges(c[i]) = Val(f.has_profile_update)
        r1 == IF Truthy(f.agent_name) THEN Keep(r0, ByAgent) ELSE r0
        r2 == IF Truthy(f.artifact_type) THEN Keep(r1, ByType) ELSE r1
        r3 == IF ~IsNone(f.cycle_range) THEN Keep(r2, InRange) ELSE r2
        r4 == IF ~IsNone(f.before_cycle) THEN Keep(r3, IsBefore) ELSE r3
        r5 == IF ~IsNone(f.after_cycle) THEN Keep(r4, IsAfter) ELSE r4
        r6 == IF ~IsNone(f.has_uncertainty) THEN Keep(r5, Unc) ELSE r5
        r7 == IF ~IsNone(f.has_profile_update) THEN Keep(r6, Upd) ELSE r6
    IN  r7

Query_mut(c, f) ==
    LET sorted == Sorted(c, Filtered(c, f), f.order = "desc")
        limited == IF ~IsNone(f.limit) THEN Slice(sorted, Val(f.limit)) ELSE sorted
    IN  IF ~IsNone(f.random_sample) /\ Val(f.random_sample) < Len(limited)
        THEN Samples(limited, Val(f.random_sample))
        ELSE {limited}

\* Environment.query: every result the call can return (random.sample draws),
\* each a sequence of positions of c
Query(c, f) ==
    LET sorted == Sorted(c, Filtered(c, f), f.order = "desc")
        sampled == IF ~IsNone(f.random_sample) /\ Val(f.random_sample) < Len(sorted)
                   THEN Samples(sorted, Val(f.random_sample))
                   ELSE {sorted}
    IN  {IF ~IsNone(f.limit) THEN Slice(r, Val(f.limit)) ELSE r : r \in sampled}

\* a query that draws nothing at random has one result
QueryOne(c, f) == CHOOSE r \in Query(c, f) : TRUE

----------------------------------------------------------------------------
(* World *)

ContentTypes == <<"text", "code", "data">>

\* WorldContent(id, content_type, title, content); title and content are
\* strings, held as sequences of characters
WorldContent(id, content_type, title, text) ==
    [id |-> id, content_type |-> content_type, title |-> title, content |-> text]

\* str.lower(), on the characters the model uses
LowerChar(ch) ==
    CASE ch = "A" -> "a"
      [] ch = "B" -> "b"
      [] OTHER -> ch

Lower(str) == [i \in 1..Len(str) |-> LowerChar(str[i])]

\* `sub in str`
Contains(sub, str) ==
    \E i \in 0..(Len(str) - Len(sub)) : SubSeq(str, i + 1, i + Len(sub)) = sub

\* World.search: scan the candidates in insertion order, stop at `limit` matches
RECURSIVE SearchScan(_, _, _, _)
SearchScan(candidates, query_lower, limit, results) ==
    IF candidates = <<>> THEN results
    ELSE LET c == Head(candidates)
             hit == \/ Contains(query_lower, Lower(c.content))
                    \/ Contains(query_lower, Lower(c.title))
             results2 == IF hit THEN Append(results, c) ELSE results
         IN  IF hit /\ Len(results2) >= limit THEN results2
             ELSE SearchScan(Tail(candidates), query_lower, limit, results2)

search(query, content_type, limit) ==
    LET OfType(c) == c.content_type = Val(content_type)
        candidates == IF ~IsNone(content_type) THEN SelectSeq(content, OfType)
                      ELSE content
    IN  SearchScan(candidates, Lower(query), limit, <<>>)

\* self._content[id]
ContentById(id) == CHOOSE c \in Range(content) : c.id = id

\* World.sample: every list the call can return
sample(content_type, n) ==
    LET ids == IF ~IsNone(content_type) THEN by_type[Val(content_type)]
               ELSE [i \in 1..Len(content) |-> content[i].id]
    IN  IF ids = <<>> THEN {<<>>}
        ELSE {[i \in 1..Len(sample_ids) |-> ContentById(sample_ids[i])] :
                sample_ids \in Samples(ids, Min(n, Len(ids)))}

\* World.count()
count == Len(content)

\* World.count(content_type)
count_of(content_type) == Len(by_type[content_type])

get_by_id_mut(entries, content_id) == None

\* World.get_by_id(content_id) on the store `entries`
get_by_id(entries, content_id) ==
    IF \E i \in 1..Len(entries) : entries[i].id = content_id
    THEN Some(CHOOSE c \in Range(entries) : c.id = content_id)
    ELSE None

\* self._content[content.id] = content: the value of a key the dict holds is
\* replaced where it stands, a new key comes last
Stored(entries, e) ==
    IF \E i \in 1..Len(entries) : entries[i].id = e.id
    THEN [i \in 1..Len(entries) |-> IF entries[i].id = e.id THEN e ELSE entries[i]]
    ELSE Append(entries, e)

\* a World: the store, the type index, and the lines of its file
EmptyWorld(lines) ==
    [content |-> <<>>, by_type |-> [t \in Range(ContentTypes) |-> <<>>],
     content_file |-> lines]

\* World.add_content(content) on the World w
add_content(w, e) ==
    [content |-> Stored(w.content, e),
     by_type |-> [w.by_type EXCEPT ![e.content_type] = Append(@, e.id)],
     content_file |-> Append(w.content_file, e)]

\* World._load_content: the loop over the lines left to read
RECURSIVE load_content(_, _)
load_content(w, lines) ==
    IF lines = <<>> THEN w
    ELSE load_content([w EXCEPT !.content = Stored(w.content, Head(lines)),
                                !.by_type[Head(lines).content_type] =
                                    Append(@, Head(lines).id)],
                      Tail(lines))

\* seed_world_with_samples(world): the loop over the samples left, of which
\* `writes` more can be written before the storage fails
RECURSIVE seed_world_with_samples(_, _, _)
seed_world_with_samples(w, samples, writes) ==
    IF samples = <<>> THEN [world |-> w, raised |-> None]
    ELSE IF ~IsNone(get_by_id(w.content, Head(samples).id))
    THEN seed_world_with_samples(w, Tail(samples), writes)
    ELSE IF writes = 0 THEN [world |-> w, raised |-> Some("OSError")]
    ELSE seed_world_with_samples(add_content(w, Head(samples)), Tail(samples),
                                 writes - 1)

----------------------------------------------------------------------------
(* Kernel.execute_read_requests *)

DefaultSearchLimit == 5

\* the filter of a World read-request
WorldFilter(random_sample, query, limit) ==
    [random_sample |-> random_sample, query |-> query, limit |-> limit]

\* the first loop: query per request, results concatenated; every outcome
RECURSIVE EnvFetches(_, _)
EnvFetches(c, reqs) ==
    IF reqs = <<>> THEN {<<>>}
    ELSE {traces \o rest : traces \in Query(c, Head(reqs)),
                           rest \in EnvFetches(c, Tail(reqs))}

\* "Remove duplicates while preserving order": seen_ids and unique_traces
RECURSIVE Dedup_mut(_, _, _, _)
Dedup_mut(c, traces, seen_ids, unique_traces) ==
    IF traces = <<>> THEN unique_traces
    ELSE LET t == Head(traces)
         IN  IF c[t].id \in seen_ids
             THEN Dedup_mut(c, Tail(traces), seen_ids,
                            SelectSeq(unique_traces, LAMBDA u : c[u].id # c[t].id)
                                \o <<t>>)
             ELSE Dedup_mut(c, Tail(traces), seen_ids \cup {c[t].id},
                            Append(unique_traces, t))

RECURSIVE Dedup(_, _, _, _)
Dedup(c, traces, seen_ids, unique_traces) ==
    IF traces = <<>> THEN unique_traces
    ELSE LET t == Head(traces)
         IN  IF c[t].id \in seen_ids
             THEN Dedup(c, Tail(traces), seen_ids, unique_traces)
             ELSE Dedup(c, Tail(traces), seen_ids \cup {c[t].id},
                        Append(unique_traces, t))

\* the second loop: sample or search per World request, results concatenated
WorldFetch(filter_params) ==
    IF ~IsNone(filter_params.random_sample)
    THEN sample(None, Val(filter_params.random_sample))
    ELSE IF ~IsNone(filter_params.query)
    THEN {search(Val(filter_params.query), None,
                 IF IsNone(filter_params.limit) THEN DefaultSearchLimit
                 ELSE Val(filter_params.limit))}
    ELSE {<<>>}

RECURSIVE WorldFetches(_)
WorldFetches(reqs) ==
    IF reqs = <<>> THEN {<<>>}
    ELSE {found \o rest : found \in WorldFetch(Head(reqs)),
                          rest \in WorldFetches(Tail(reqs))}

\* execute_read_requests(requests): the two contexts, and the concatenation
\* the log context was made from
execute_read_requests(requests, fetched, traces, found) ==
    /\ fetched \in EnvFetches(cache, requests.read_requests_env)
    /\ traces = Dedup(cache, fetched, {}, <<>>)
    /\ found \in WorldFetches(requests.read_requests_world)

----------------------------------------------------------------------------
(* CognitiveProfile *)

AbstractionLevels == {"low", "medium", "high"}
ComplexityTargets == {"simple", "complex", "variable"}
BoundedParams == {"tendency_to_close", "self_focus", "other_focus", "world_focus"}

\* CognitivePreferences(): the defaults, floats in tenths
DefaultPreferences ==
    [abstraction_level |-> "medium", tendency_to_close |-> 5, self_focus |-> 5,
     other_focus |-> 5, world_focus |-> 3, complexity_target |-> "variable"]

\* the loop of update over proposed_changes.items(): the enum conversions
\* raise ValueError on a value outside the enumeration, setattr stores the
\* value (the model does not validate assignments)
RECURSIVE ApplyChanges(_, _)
ApplyChanges(prefs, items) ==
    IF items = <<>> THEN [preferences |-> prefs, raised |-> None]
    ELSE LET key == Head(items)[1]
             value == Head(items)[2]
         IN  IF key \notin DOMAIN prefs THEN ApplyChanges(prefs, Tail(items))
             ELSE IF key = "abstraction_level" /\ value \notin AbstractionLevels
             THEN [preferences |-> prefs, raised |-> Some("ValueError")]
             ELSE IF key = "complexity_target" /\ value \notin ComplexityTargets
             THEN [preferences |-> prefs, raised |-> Some("ValueError")]
             ELSE ApplyChanges([prefs EXCEPT ![key] = value], Tail(items))

\* CognitiveProfile.update(proposed_changes, cycle_id, comment) on the profile
\* (prefs, hist): the profile it leaves and the exception it ends with
update(prefs, hist, proposed_changes, cycle_id, comment) ==
    IF proposed_changes = <<>>
    THEN [preferences |-> prefs, history |-> hist, raised |-> None]
    ELSE LET applied == ApplyChanges(prefs, proposed_changes)
             change_record == [cycle_id |-> cycle_id, before |-> prefs,
                               changes |-> proposed_changes, comment |-> comment,
                               after |-> applied.preferences]
         IN  [preferences |-> applied.preferences,
              history |-> IF IsNone(applied.raised) THEN Append(hist, change_record)
                          ELSE hist,
              raised |-> applied.raised]

\* CognitiveProfile.create_default(agent_name)
create_default(agent_name) ==
    [agent_name |-> agent_name, preferences |-> DefaultPreferences,
     history |-> <<>>]

\* CognitiveProfile.save(path): the JSON object written to the file
save(profile) ==
    [agent_name |-> profile.agent_name, preferences |-> profile.preferences,
     history |-> profile.history]

\* CognitivePreferences(**data): the bounds of the four floats and the two
\* enumerations are validated at construction
Validates(data) ==
    /\ \A key \in BoundedParams : data[key] \in 0..10
    /\ data.abstraction_level \in AbstractionLevels
    /\ data.complexity_target \in ComplexityTargets

\* CognitiveProfile.load(path) on a file holding `data`: the profile built,
\* or the exception cls(**data) raises
load(data) ==
    IF Validates(data.preferences)
    THEN [profile |-> Some([agent_name |-> data.agent_name,
                            preferences |-> data.preferences,
                            history |-> data.history]),
          raised |-> None]
    ELSE [profile |-> None, raised |-> Some("ValidationError")]

load_or_create_mut(agent_name, stored) ==
    [profile |-> Some(create_default(agent_name)),
     stored |-> IF IsNone(stored) THEN Some(save(create_default(agent_name)))
                ELSE stored,
     raised |-> None]

\* create_kernel, "Load or create profiles", for one agent: `stored` is the
\* content of its profile file, <<>> when there is none; the result is the
\* profile, the content of the file afterwards, and the exception raised
load_or_create(agent_name, stored) ==
    IF ~IsNone(stored)
    THEN [profile |-> load(Val(stored)).profile, stored |-> stored,
          raised |-> load(Val(stored)).raised]
    ELSE [profile |-> Some(create_default(agent_name)),
          stored |-> Some(save(create_default(agent_name))),
          raised |-> None]

----------------------------------------------------------------------------
(* Agent *)

\* Agent.generate_read_requests: what the profile makes the agent ask for
generate_read_requests(name, other_agent_name, p, environment_count, world_available) ==
    LET recent_self ==
            IF p.self_focus >= 3
            THEN <<[NoFilter EXCEPT !.agent_name = Some(name),
                                    !.limit = Some(Max(1, (5 * p.self_focus) \div 10)),
                                    !.order = "desc"]>>
            ELSE <<>>
        recent_other ==
            IF p.other_focus >= 3
            THEN <<[NoFilter EXCEPT !.agent_name = Some(other_agent_name),
                                    !.limit = Some(Max(1, (5 * p.other_focus) \div 10)),
                                    !.order = "desc"]>>
            ELSE <<>>
        historical_sample ==
            IF p.abstraction_level = "high" /\ environment_count > 10
            THEN <<[NoFilter EXCEPT !.random_sample = Some(3)]>>
            ELSE <<>>
        random_world ==
            IF world_available /\ p.world_focus >= 3
            THEN <<WorldFilter(Some(Max(1, (3 * p.world_focus) \div 10)), None, None)>>
            ELSE <<>>
    IN  [read_requests_env |-> recent_self \o recent_other \o historical_sample,
         read_requests_world |-> random_world]

ArtifactTypes ==
    {"hypothesis_chain", "classification", "partial_theory", "comparison",
     "open_question", "silence"}

ErrorExcerptLength == 500

\* "Error parsing agent output"
ErrorDescription ==
    <<"E", "r", "r", "o", "r", " ", "p", "a", "r", "s", "i", "n", "g",
      " ", "a", "g", "e", "n", "t", " ", "o", "u", "t", "p", "u", "t">>

\* dict.get(key, default) on a parsed value: the default when the key is absent
Get(o, default) == IF IsNone(o) THEN default ELSE Val(o)

profile_snapshot_mut(prefs) == Some(DefaultPreferences)

create_error_artifact_mut(name, prefs, cycle_id, error_info, now) ==
    [Artifact(name, cycle_id, now, "partial_theory",
              ArtifactContent(ErrorDescription,
                              <<Step("error", Slice(error_info, ErrorExcerptLength))>>,
                              MetaCognition("Output parsing failed", "N/A",
                                            <<"Cannot determine due to error">>)),
              Some(ProfileUpdate(<<<<"self_focus", 1>>>>, "")), None)
        EXCEPT !.profile_snapshot = Some(prefs)]

\* profile_snapshot=self.profile.preferences.model_dump(): a dict of its own
\* holding the values the preferences have at that moment
profile_snapshot(prefs) == Some(prefs)

\* Agent._create_error_artifact(cycle_id, error_info), built at instant now by
\* the agent whose preferences are prefs
create_error_artifact(name, prefs, cycle_id, error_info, now) ==
    [Artifact(name, cycle_id, now, "partial_theory",
              ArtifactContent(ErrorDescription,
                              <<Step("error", Slice(error_info, ErrorExcerptLength))>>,
                              MetaCognition("Output parsing failed", "N/A",
                                            <<"Cannot determine due to error">>)),
              None, None)
        EXCEPT !.profile_snapshot = profile_snapshot(prefs)]

\* Agent._parse_output(raw_output, cycle_id), at instant now, of the agent
\* whose preferences are prefs.  Its argument is
\* [text, loads_raises, data]: the raw text, and what json.loads does with it
\* once the code fences are removed: the exception it raises, or the value it
\* returns.  data is [buildable, artifact_type, description, steps,
\* meta_cognition, profile_update], each key optional; buildable is whether
\* the models accept the values (a step without content, or a value that is no
\* object, do not).  The result is the artifact returned, or the exception
\* that leaves _parse_output: only JSONDecodeError is caught around json.loads.
parse_output(name, prefs, raw, cycle_id, now) ==
    IF raw.loads_raises = Some("JSONDecodeError")
    THEN [artifact |-> Some(create_error_artifact(name, prefs, cycle_id, raw.text,
                                                  now)),
          raised |-> None]
    ELSE IF ~IsNone(raw.loads_raises)
    THEN [artifact |-> None, raised |-> raw.loads_raises]
    ELSE LET data == Val(raw.data)
             meta_cog_data == data.meta_cognition
             artifact_type_str == Get(data.artifact_type, "partial_theory")
             artifact_type == IF artifact_type_str \in ArtifactTypes
                              THEN artifact_type_str ELSE "partial_theory"
             no_keys == [proposed_changes |-> None, comment |-> None]
             profile_update ==
                IF IsNone(data.profile_update) \/ Val(data.profile_update) = no_keys
                THEN None
                ELSE Some(ProfileUpdate(Get(Val(data.profile_update).proposed_changes, <<>>),
                                        Get(Val(data.profile_update).comment, "")))
         IN  IF ~data.buildable
             THEN [artifact |-> Some(create_error_artifact(name, prefs, cycle_id,
                                        <<"Parse error: ", "\n\nRaw: ">> \o raw.text,
                                        now)),
                   raised |-> None]
             ELSE [artifact |-> Some([Artifact(name, cycle_id, now, artifact_type,
                           ArtifactContent(
                               Get(data.description, <<"No description">>),
                               data.steps,
                               MetaCognition(
                                   Get(meta_cog_data.self_observation, "Unable to observe self"),
                                   Get(meta_cog_data.influence_of_other_agent, "Unknown"),
                                   Get(meta_cog_data.uncertainties, <<"Cannot determine">>))),
                           profile_update, None)
                        EXCEPT !.profile_snapshot = profile_snapshot(prefs)]),
                   raised |-> None]

----------------------------------------------------------------------------
(* Kernel *)

OldTraceWindow == 20
SummaryWindow == 10
SummarySample == 3
ExcerptLength == 300

\* Kernel._schedule_next_perturbation(current_cycle): every cycle it can return
schedule_next_perturbation_mut(cycle) ==
    {r : r \in perturbation_min..perturbation_max}

schedule_next_perturbation(cycle) ==
    {cycle + r : r \in perturbation_min..perturbation_max}

get_anomalous_sample_any ==
    {IF samples = <<>> THEN None ELSE Some(samples[1]) : samples \in sample(None, 1)}

get_anomalous_sample_last ==
    LET HasContent(t) == Len(by_type[t]) > 0
        present == SelectSeq(ContentTypes, HasContent)
    IN  IF present = <<>> THEN {None}
        ELSE LET last == CHOOSE i \in 1..Len(present) :
                            \A j \in 1..Len(present) :
                                \/ Len(by_type[present[i]]) < Len(by_type[present[j]])
                                \/ /\ Len(by_type[present[i]]) = Len(by_type[present[j]])
                                   /\ i >= j
             IN  {IF samples = <<>> THEN None ELSE Some(samples[1]) :
                    samples \in sample(Some(present[last]), 1)}

\* World.get_anomalous_sample: an entry of the least common type that has
\* content, the first such type in the order of ContentType; every outcome
get_anomalous_sample ==
    LET HasContent(t) == Len(by_type[t]) > 0
        present == SelectSeq(ContentTypes, HasContent)
    IN  IF present = <<>> THEN {None}
        ELSE LET first == CHOOSE i \in 1..Len(present) :
                            \A j \in 1..Len(present) :
                                \/ Len(by_type[present[i]]) < Len(by_type[present[j]])
                                \/ /\ Len(by_type[present[i]]) = Len(by_type[present[j]])
                                   /\ i <= j
             IN  {IF samples = <<>> THEN None ELSE Some(samples[1]) :
                    samples \in sample(Some(present[first]), 1)}

perturbation_types == <<"old_trace", "anomalous_world", "compressed_summary">>

SummaryExcerptLength == 50

\* the f-string of one trace in a compressed summary
summary_part_mut(t) == <<t.agent_name, t.cycle_id, t.artifact.description>>

summary_part(t) ==
    <<t.agent_name, t.cycle_id, Slice(t.artifact.description, SummaryExcerptLength)>>

\* the before_cycle of the two log queries of _generate_perturbation
old_trace_before_mut(cur) == Max(1, cur - OldTraceWindow) + 1

old_trace_before(cur) == Max(1, cur - OldTraceWindow)

summary_before(cur) == Max(1, cur - SummaryWindow)

\* Kernel._generate_perturbation at cycle cur once random.choice gave ptype:
\* every payload it can return, a payload being <<perturbation_type, content>>
\* and <<>> the None of the last line
perturbation_of(ptype, c, cur) ==
    CASE ptype = "old_trace" ->
            {IF old_traces = <<>> THEN None
             ELSE Some(<<"old_trace",
                         <<<<c[old_traces[1]].agent_name, c[old_traces[1]].cycle_id,
                             c[old_traces[1]].artifact.description,
                             c[old_traces[1]].artifact_type>>>>>>) :
                old_traces \in Query(c, [NoFilter EXCEPT
                                  !.random_sample = Some(1),
                                  !.before_cycle = Some(old_trace_before(cur))])}
      [] ptype = "anomalous_world" ->
            {IF IsNone(e) THEN None
             ELSE Some(<<"anomalous_world",
                         <<<<Val(e).content_type, Val(e).title,
                             Slice(Val(e).content, ExcerptLength)>>>>>>) :
                e \in get_anomalous_sample}
      [] ptype = "compressed_summary" ->
            {IF old_traces = <<>> THEN None
             ELSE Some(<<"compressed_summary",
                         [k \in 1..Len(old_traces) |-> summary_part(c[old_traces[k]])]>>) :
                old_traces \in Query(c, [NoFilter EXCEPT
                                  !.random_sample = Some(SummarySample),
                                  !.before_cycle = Some(summary_before(cur))])}

\* Kernel._generate_perturbation at cycle cur: every payload it can return
generate_perturbation(c, cur) ==
    UNION {perturbation_of(perturbation_types[k], c, cur) :
            k \in 1..Len(perturbation_types)}

\* run_agent_cycle, "Update cognitive profile if agent proposed changes": the
\* statement is reached only when append and index_artifact returned
apply_profile_update_mut(reached, artifact, p, hist, cycle_id) ==
    IF HasProposedChanges(artifact)
    THEN update(p, hist, Val(artifact.profile_update).proposed_changes,
                cycle_id, Val(artifact.profile_update).comment)
    ELSE [preferences |-> p, history |-> hist, raised |-> None]

apply_profile_update(reached, artifact, p, hist, cycle_id) ==
    IF reached /\ HasProposedChanges(artifact)
    THEN update(p, hist, Val(artifact.profile_update).proposed_changes,
                cycle_id, Val(artifact.profile_update).comment)
    ELSE [preferences |-> p, history |-> hist, raised |-> None]

\* a call made on behalf of an agent; args is given for profile.update only
Call(name, callee, args) == [agent |-> name, callee |-> callee, args |-> args]

\* Kernel.run_agent_cycle(agent, rag, cycle_id, perturbation): the requests,
\* their resolution, the think-step, the append, the indexing, the profile
\* update.  `outcomes` is what the call to the language model can end with,
\* <<>> when it raises and <<raw_output>> when it answers; `writes` is whether
\* the storage accepts the append; `indexes` is whether rag.index_artifact
\* returns; `done` is where run_cycle goes on.  An exception leaves run_cycle.
run_agent_cycle(name, other_agent_name, cycle_id, pert, outcomes, writes, indexes, done) ==
    LET p == preferences[name]
        read_requests == generate_read_requests(name, other_agent_name, p,
                                                Len(cache), count > 0)
    IN  \E fetched \in EnvFetches(cache, read_requests.read_requests_env),
           found \in WorldFetches(read_requests.read_requests_world),
           outcome \in outcomes, written \in writes, indexed \in indexes :
            LET traces == Dedup(cache, fetched, {}, <<>>)
                parsed == parse_output(name, p, Val(outcome), cycle_id, clock)
                artifact == Val(parsed.artifact)
                r == apply_profile_update(written /\ indexed, artifact, p,
                                          history[name], cycle_id)
                called == calls \o <<Call(name, "execute_read_requests", None),
                                     Call(name, "think", None)>>
            IN  /\ think_in' = [think_in EXCEPT ![name] =
                        Some([cycle_id |-> cycle_id, env_traces |-> traces,
                              world_content |-> found, perturbation |-> pert])]
                /\ IF IsNone(outcome)
                   THEN /\ written /\ indexed
                        /\ calls' = called
                        /\ raised' = Some("APIError")
                        /\ pc' = "aborted"
                        /\ UNCHANGED <<envVars, profileVars, clock, raw_output,
                                       artifacts>>
                   ELSE IF ~IsNone(parsed.raised)
                   THEN /\ written /\ indexed
                        /\ calls' = called
                        /\ raw_output' = [raw_output EXCEPT ![name] = outcome]
                        /\ raised' = parsed.raised
                        /\ pc' = "aborted"
                        /\ UNCHANGED <<envVars, profileVars, clock, artifacts>>
                   ELSE /\ written \/ indexed
                        /\ calls' = called
                            \o <<Call(name, "append", None)>>
                            \o (IF written THEN <<Call(name, "index_artifact", None)>>
                                ELSE <<>>)
                            \o (IF written /\ indexed /\ HasProposedChanges(artifact)
                                THEN <<Call(name, "update",
                                            Some([proposed_changes |->
                                                    Val(artifact.profile_update).proposed_changes,
                                                  cycle_id |-> cycle_id,
                                                  comment |->
                                                    Val(artifact.profile_update).comment]))>>
                                ELSE <<>>)
                        /\ raw_output' = [raw_output EXCEPT ![name] = outcome]
                        /\ clock' = clock + 1
                        /\ append(artifact, written)
                        /\ preferences' = [preferences EXCEPT ![name] = r.preferences]
                        /\ history' = [history EXCEPT ![name] = r.history]
                        /\ UNCHANGED profile_file
                        /\ raised' = IF ~written THEN Some("OSError")
                                     ELSE IF ~indexed THEN Some("ChromaError")
                                     ELSE r.raised
                        /\ IF written /\ indexed /\ IsNone(r.raised)
                           THEN /\ pc' = done
                                /\ artifacts' = [artifacts EXCEPT ![name] = Some(artifact)]
                           ELSE /\ pc' = "aborted"
                                /\ UNCHANGED artifacts
                /\ UNCHANGED <<worldVars, perturbation_min, perturbation_max,
                               next_perturbation_cycle, current_cycle, perturbation,
                               chosen, used_cycles, fired, base_cycle, restarts,
                               resolveVars>>

\* World._load_content: the type index of a pool
TypeIndex(entries) ==
    [t \in Range(ContentTypes) |->
        LET OfType(c) == c.content_type = t
            es == SelectSeq(entries, OfType)
        IN  [i \in 1..Len(es) |-> es[i].id]]

----------------------------------------------------------------------------
(* The log alone: append, reload, query *)

\* the artifacts handed to append on the log whose order is examined: any
\* cycle and instant, the id left to model_post_init, and one artifact of the
\* other agent and one with a caller-given id
TimedArtifacts ==
    {Artifact(AGENT_A_NAME, c, t, "partial_theory", Thought(<<"u">>), None, None) :
        c \in 1..MaxCycleId, t \in 0..MaxTs}
    \cup {Artifact(AGENT_B_NAME, 1, 1, "partial_theory", Thought(<<"u">>), None, None),
          Artifact(AGENT_A_NAME, 1, 0, "partial_theory", Thought(<<"u">>), None,
                   Some(<<"custom", 0, 0>>))}

\* the artifacts handed to append on the log the filters are tried on: any
\* agent, cycle, uncertainty text and profile update, and one of another type
FilterArtifacts ==
    {Artifact(n, c, 0, "partial_theory", Thought(u), pu, None) :
        n \in AgentNames, c \in 1..MaxCycleId, u \in {<<" ">>, <<"u">>},
        pu \in {None, Some(ProfileUpdate(<<<<"self_focus", 1>>>>, "c"))}}
    \cup {Artifact(AGENT_A_NAME, 1, 0, "silence", Thought(<<>>),
                   Some(ProfileUpdate(<<>>, "")), None)}

\* the state of every component the log does not touch
RestIdle ==
    /\ preferences = <<>>
    /\ history = <<>>
    /\ profile_file = <<>>
    /\ raised = None
    /\ perturbation_min = 0
    /\ perturbation_max = 0
    /\ next_perturbation_cycle = 0
    /\ current_cycle = 0
    /\ pc = "idle"
    /\ perturbation = None
    /\ chosen = None
    /\ raw_output = <<>>
    /\ artifacts = <<>>
    /\ returned = None
    /\ used_cycles = <<>>
    /\ calls = <<>>
    /\ think_in = <<>>
    /\ fired = <<>>
    /\ base_cycle = 0
    /\ clock = 0
    /\ restarts = 0
    /\ env_fetched = <<>>
    /\ env_traces = <<>>
    /\ world_content = <<>>

\* Environment(storage_path) on a path with no artifacts.jsonl
InitEnv ==
    /\ cache = <<>>
    /\ file = <<>>
    /\ loaded = TRUE
    /\ content = <<>>
    /\ by_type = [t \in Range(ContentTypes) |-> <<>>]
    /\ content_file = <<>>
    /\ RestIdle

\* Environment.append(artifact)
AppendTimed ==
    \E a \in TimedArtifacts, written \in BOOLEAN :
        /\ Len(cache) < MaxLog
        /\ append(a, written)
        /\ raised' = IF written THEN None ELSE Some("OSError")
        /\ UNCHANGED <<worldVars, profileVars, kernelVars, clock, restarts, resolveVars>>

AppendFiltered ==
    \E a \in FilterArtifacts :
        /\ Len(cache) < MaxQueryLog
        /\ EnvAppend(a)
        /\ UNCHANGED <<worldVars, profileVars, raised, kernelVars, clock, restarts, resolveVars>>

\* a new Environment on the same storage path: _load_artifacts replays the file
Reload ==
    /\ cache' = LoadArtifacts(file)
    /\ loaded' = TRUE
    /\ UNCHANGED <<file, worldVars, profileVars, raised, kernelVars, clock, restarts, resolveVars>>

NextEnv == AppendTimed \/ Reload
SpecEnv == InitEnv /\ [][NextEnv]_vars

NextQuery == AppendFiltered
SpecQuery == InitEnv /\ [][NextQuery]_vars

----------------------------------------------------------------------------
(* The log that queries cut and sample *)

\* the artifacts handed to append on the log that is cut and sampled: the
\* first agent's of two cycles and two instants, and one of the other agent
SampledArtifacts ==
    {Artifact(AGENT_A_NAME, c, t, "partial_theory", Thought(<<"u">>), None, None) :
        c \in 1..2, t \in 0..1}
    \cup {Artifact(AGENT_B_NAME, 1, 1, "partial_theory", Thought(<<"u">>), None, None)}

\* Environment.append(artifact), accepted by the storage
AppendSampled ==
    \E a \in SampledArtifacts :
        /\ Len(cache) < MaxSampleLog
        /\ append(a, TRUE)
        /\ UNCHANGED <<worldVars, profileVars, raised, kernelVars, clock, restarts, resolveVars>>

NextSample == AppendSampled
SpecSample == InitEnv /\ [][NextSample]_vars

----------------------------------------------------------------------------
(* Read-requests resolved against a log and a pool *)

\* the pool the requests are resolved against
PoolEntries ==
    <<WorldContent("text_001", "text", <<"A", "b">>, <<"a">>),
      WorldContent("code_001", "code", <<"b">>, <<"B", "a">>)>>

\* World(storage_path) on a content.jsonl holding PoolEntries, beside an
\* Environment on a path with no artifacts.jsonl
InitResolve ==
    /\ cache = <<>>
    /\ file = <<>>
    /\ loaded = TRUE
    /\ content = PoolEntries
    /\ by_type = TypeIndex(PoolEntries)
    /\ content_file = PoolEntries
    /\ RestIdle

\* the artifacts on the log the requests are resolved against
ResolveArtifacts ==
    {Artifact(n, 1, 0, "partial_theory", Thought(<<"u">>), None, None) : n \in AgentNames}
    \cup {Artifact(AGENT_A_NAME, 2, 1, "partial_theory", Thought(<<"u">>), None, None)}

AppendResolved ==
    \E a \in ResolveArtifacts :
        /\ Len(cache) < MaxQueryLog
        /\ EnvAppend(a)
        /\ UNCHANGED <<worldVars, profileVars, raised, kernelVars, clock, restarts, resolveVars>>

\* the log filters of the read-requests: an agent's recent traces, a random
\* sample, everything in ascending order
EnvRequestFilters ==
    {[NoFilter EXCEPT !.agent_name = Some(AGENT_A_NAME), !.limit = Some(2)],
     [NoFilter EXCEPT !.random_sample = Some(1)],
     [NoFilter EXCEPT !.order = "asc"]}

\* the pool filters of the read-requests: a random sample, a search
WorldRequestFilters ==
    {WorldFilter(Some(2), None, None), WorldFilter(None, Some(<<"A">>), None)}

ListsOf(S) == UNION {[1..n -> S] : n \in 0..MaxRequests}

\* the requests handed to execute_read_requests
RequestInputs ==
    {[read_requests_env |-> e, read_requests_world |-> w] :
        e \in ListsOf(EnvRequestFilters), w \in {<<>>}}
    \cup {[read_requests_env |-> e, read_requests_world |-> w] :
            e \in {<<>>}, w \in ListsOf(WorldRequestFilters)}

\* Kernel.execute_read_requests(requests, agent)
ExecuteReadRequests ==
    \E requests \in RequestInputs :
        /\ execute_read_requests(requests, env_fetched', env_traces', world_content')
        /\ UNCHANGED <<envVars, worldVars, profileVars, raised, kernelVars, clock, restarts>>

NextResolve == AppendResolved \/ ExecuteReadRequests
SpecResolve == InitResolve /\ [][NextResolve]_vars

----------------------------------------------------------------------------
(* A profile alone: update *)

\* the items a proposed_changes dict is made of: values inside and outside
\* the domain of a bounded parameter and of the two enumerations, and a key
\* that is not a parameter
ChangeItems ==
    {<<"self_focus", 1>>, <<"self_focus", 15>>,
     <<"abstraction_level", "high">>, <<"abstraction_level", "abstract">>,
     <<"complexity_target", "simple">>, <<"complexity_target", "chaotic">>,
     <<"mood", 1>>}

\* the dicts handed to update: at most one item per key, in any order
ProposedChanges ==
    {d \in UNION {[1..n -> ChangeItems] : n \in 0..3} :
        \A i, j \in 1..Len(d) : i # j => d[i][1] # d[j][1]}

\* CognitiveProfile.create_default for both agents; no log, no pool
InitProfile ==
    /\ cache = <<>>
    /\ file = <<>>
    /\ loaded = TRUE
    /\ content = <<>>
    /\ by_type = [t \in Range(ContentTypes) |-> <<>>]
    /\ content_file = <<>>
    /\ preferences = [n \in AgentNames |-> create_default(n).preferences]
    /\ history = [n \in AgentNames |-> create_default(n).history]
    /\ profile_file = [n \in AgentNames |-> None]
    /\ raised = None
    /\ perturbation_min = 0
    /\ perturbation_max = 0
    /\ next_perturbation_cycle = 0
    /\ current_cycle = 0
    /\ pc = "idle"
    /\ perturbation = None
    /\ chosen = None
    /\ raw_output = <<>>
    /\ artifacts = <<>>
    /\ returned = None
    /\ used_cycles = <<>>
    /\ calls = <<>>
    /\ think_in = <<>>
    /\ fired = <<>>
    /\ base_cycle = 0
    /\ clock = 0
    /\ restarts = 0
    /\ env_fetched = <<>>
    /\ env_traces = <<>>
    /\ world_content = <<>>

\* agent_a.profile.update(proposed_changes, cycle_id, comment), once per
\* cycle; clock counts the cycles
Update ==
    \E d \in ProposedChanges :
        LET n == AGENT_A_NAME
            r == update(preferences[n], history[n], d, clock + 1, "c")
        IN  /\ clock < MaxUpdates
            /\ clock' = clock + 1
            /\ preferences' = [preferences EXCEPT ![n] = r.preferences]
            /\ history' = [history EXCEPT ![n] = r.history]
            /\ UNCHANGED profile_file
            /\ raised' = r.raised
            /\ calls' = <<Call(n, "update", Some([proposed_changes |-> d,
                                                  cycle_id |-> clock + 1,
                                                  comment |-> "c"]))>>
            /\ UNCHANGED <<envVars, worldVars, perturbation_min, perturbation_max,
                           next_perturbation_cycle, current_cycle, pc, perturbation,
                           chosen, raw_output, artifacts, returned, used_cycles,
                           think_in, fired, base_cycle, restarts, resolveVars>>

NextProfile == Update
SpecProfile == InitProfile /\ [][NextProfile]_vars

----------------------------------------------------------------------------
(* The Kernel's cycle loop *)

\* what json.loads makes of an answer that is a JSON object
JsonData(buildable, artifact_type, profile_update) ==
    [buildable |-> buildable,
     artifact_type |-> artifact_type,
     description |-> Some(<<"d">>),
     steps |-> <<Step("inference", <<"c">>)>>,
     meta_cognition |-> [self_observation |-> Some("s"),
                         influence_of_other_agent |-> Some("i"),
                         uncertainties |-> Some(<<"u">>)],
     profile_update |-> profile_update]

\* what the language model answers: a JSON object with every key of the
\* prompt's schema, and the profile update it proposes
WellFormed(artifact_type, profile_update) ==
    [text |-> <<"{", "}">>, loads_raises |-> None,
     data |-> Some(JsonData(TRUE, Some(artifact_type), profile_update))]

\* create_kernel on a data directory with an empty log, an empty or a seeded
\* pool and the profile files `found` (per agent, <<>> when there is none),
\* with perturbation gaps of the caller
create_kernel(found) ==
    /\ cache = <<>>
    /\ file = <<>>
    /\ loaded = TRUE
    /\ content \in {<<>>, PoolEntries}
    /\ by_type = TypeIndex(content)
    /\ content_file = content
    /\ preferences = [n \in AgentNames |->
                        Val(load_or_create(n, found[n]).profile).preferences]
    /\ history = [n \in AgentNames |->
                    Val(load_or_create(n, found[n]).profile).history]
    /\ profile_file = [n \in AgentNames |-> load_or_create(n, found[n]).stored]
    /\ raised = None
    /\ perturbation_max \in 1..MaxGap
    /\ perturbation_min \in 1..perturbation_max
    /\ next_perturbation_cycle \in schedule_next_perturbation(0)
    /\ current_cycle = get_latest_cycle_id(cache)
    /\ base_cycle = get_latest_cycle_id(cache)
    /\ pc = "idle"
    /\ perturbation = None
    /\ chosen = None
    /\ raw_output = [n \in AgentNames |-> None]
    /\ artifacts = [n \in AgentNames |-> None]
    /\ returned = None
    /\ used_cycles = <<>>
    /\ calls = <<>>
    /\ think_in = [n \in AgentNames |-> None]
    /\ fired = <<>>
    /\ clock = 0
    /\ restarts = 0
    /\ env_fetched = <<>>
    /\ env_traces = <<>>
    /\ world_content = <<>>

\* create_kernel on a data directory without profile files
InitKernel == create_kernel([n \in AgentNames |-> None])

\* run_cycle, to the first agent's turn: the cycle counter and the
\* perturbation; `bound` is the number of cycles explored
run_cycle_begin_mut(bound) ==
    /\ pc = "idle"
    /\ current_cycle < bound
    /\ LET cycle_id == current_cycle + 1
       IN  /\ current_cycle' = cycle_id
           /\ used_cycles' = Append(used_cycles, <<restarts, cycle_id>>)
           /\ IF cycle_id >= next_perturbation_cycle
              THEN /\ \E k \in 1..Len(perturbation_types) :
                        /\ chosen' = Some(perturbation_types[k])
                        /\ perturbation' \in
                            perturbation_of(perturbation_types[k], cache, cycle_id)
                   /\ IF IsNone(perturbation')
                      THEN UNCHANGED next_perturbation_cycle
                      ELSE next_perturbation_cycle' \in schedule_next_perturbation(cycle_id)
                   /\ fired' = Append(fired, cycle_id)
              ELSE /\ perturbation' = None
                   /\ UNCHANGED <<next_perturbation_cycle, fired, chosen>>
    /\ pc' = "agent_a"
    /\ raw_output' = [n \in AgentNames |-> None]
    /\ artifacts' = [n \in AgentNames |-> None]
    /\ returned' = None
    /\ calls' = <<>>
    /\ raised' = None
    /\ UNCHANGED <<envVars, worldVars, profileVars, perturbation_min,
                   perturbation_max, think_in, base_cycle, clock, restarts,
                   resolveVars>>

run_cycle_begin(bound) ==
    /\ pc = "idle"
    /\ current_cycle < bound
    /\ LET cycle_id == current_cycle + 1
       IN  /\ current_cycle' = cycle_id
           /\ used_cycles' = Append(used_cycles, <<restarts, cycle_id>>)
           /\ IF cycle_id >= next_perturbation_cycle
              THEN /\ \E k \in 1..Len(perturbation_types) :
                        /\ chosen' = Some(perturbation_types[k])
                        /\ perturbation' \in
                            perturbation_of(perturbation_types[k], cache, cycle_id)
                   /\ next_perturbation_cycle' \in schedule_next_perturbation(cycle_id)
                   /\ fired' = Append(fired, cycle_id)
              ELSE /\ perturbation' = None
                   /\ UNCHANGED <<next_perturbation_cycle, fired, chosen>>
    /\ pc' = "agent_a"
    /\ raw_output' = [n \in AgentNames |-> None]
    /\ artifacts' = [n \in AgentNames |-> None]
    /\ returned' = None
    /\ calls' = <<>>
    /\ raised' = None
    /\ UNCHANGED <<envVars, worldVars, profileVars, perturbation_min,
                   perturbation_max, think_in, base_cycle, clock, restarts,
                   resolveVars>>

RunCycleBegin == run_cycle_begin(MaxCycle)

\* run_cycle: "Run Agent A"
RunAgentA ==
    /\ pc = "agent_a"
    /\ run_agent_cycle(AGENT_A_NAME, AGENT_B_NAME, current_cycle, perturbation,
                       {Some(WellFormed("partial_theory", None))}, {TRUE}, {TRUE}, "agent_b")
    /\ UNCHANGED returned

\* run_cycle's return statement, once the second turn is over
Return ==
    returned' = IF pc' = "idle"
                THEN Some(<<Val(artifacts'[AGENT_A_NAME]), Val(artifacts'[AGENT_B_NAME])>>)
                ELSE None

\* run_cycle: "Run Agent B", and the return
RunAgentB_mut ==
    /\ pc = "agent_b"
    /\ \E regenerated \in generate_perturbation(cache, current_cycle) :
        run_agent_cycle(AGENT_B_NAME, AGENT_A_NAME, current_cycle, regenerated,
                        {Some(WellFormed("partial_theory", None))}, {TRUE}, {TRUE}, "idle")
    /\ Return

RunAgentB ==
    /\ pc = "agent_b"
    /\ run_agent_cycle(AGENT_B_NAME, AGENT_A_NAME, current_cycle, perturbation,
                       {Some(WellFormed("partial_theory", None))}, {TRUE}, {TRUE}, "idle")
    /\ Return

\* the process ends between two cycles, or on the exception that left
\* run_cycle, and create_kernel runs again on the same data: the log is
\* replayed, the profiles are read back from the files written when they were
\* created, a new Kernel is built
Restart ==
    /\ pc \in {"idle", "aborted"}
    /\ restarts < MaxRestarts
    /\ restarts' = restarts + 1
    /\ cache' = LoadArtifacts(file)
    /\ loaded' = TRUE
    /\ preferences' = [n \in AgentNames |->
                        Val(load_or_create(n, profile_file[n]).profile).preferences]
    /\ history' = [n \in AgentNames |->
                    Val(load_or_create(n, profile_file[n]).profile).history]
    /\ profile_file' = [n \in AgentNames |->
                        load_or_create(n, profile_file[n]).stored]
    /\ raised' = None
    /\ next_perturbation_cycle' \in schedule_next_perturbation(0)
    /\ current_cycle' = get_latest_cycle_id(cache')
    /\ base_cycle' = get_latest_cycle_id(cache')
    /\ pc' = "idle"
    /\ perturbation' = None
    /\ chosen' = None
    /\ raw_output' = [n \in AgentNames |-> None]
    /\ artifacts' = [n \in AgentNames |-> None]
    /\ returned' = None
    /\ calls' = <<>>
    /\ think_in' = [n \in AgentNames |-> None]
    /\ fired' = <<>>
    /\ UNCHANGED <<file, worldVars, perturbation_min, perturbation_max, clock,
                   used_cycles, resolveVars>>

NextKernel == RunCycleBegin \/ RunAgentA \/ RunAgentB \/ Restart
SpecKernel == InitKernel /\ [][NextKernel]_vars

----------------------------------------------------------------------------
(* The cycle loop when the think-step and the storage misbehave *)

\* an answer longer than the excerpt an error artifact keeps
LongText == [i \in 1..(ErrorExcerptLength + 1) |-> "x"]

\* an answer that is no JSON, and one that is JSON but no artifact, though it
\* proposes a profile change
NotJson ==
    [text |-> LongText, loads_raises |-> Some("JSONDecodeError"), data |-> None]
Unbuildable ==
    [text |-> <<"{", "}">>, loads_raises |-> None,
     data |-> Some(JsonData(FALSE, None,
                            Some([proposed_changes |-> Some(<<<<"self_focus", 1>>>>),
                                  comment |-> None])))]

\* an answer of opening brackets nested deeper than the interpreter recurses
\* ("[" * 2000): json.loads raises RecursionError, which is no JSONDecodeError
DeeplyNested ==
    [text |-> <<"[", "[", "[">>, loads_raises |-> Some("RecursionError"),
     data |-> None]

\* what the call to the language model can end with: an exception, or an
\* answer; of the answers that are artifacts one has a profile update that
\* proposes no change, the others propose a change, one of them a value
\* outside its enumeration and a type outside ArtifactType
ThinkOutcomes ==
    {None, Some(NotJson), Some(Unbuildable), Some(DeeplyNested),
     Some(WellFormed("silence", Some([proposed_changes |-> None,
                                      comment |-> Some("c")]))),
     Some(WellFormed("hypothesis_chain",
                     Some([proposed_changes |-> Some(<<<<"self_focus", 1>>>>),
                           comment |-> None]))),
     Some(WellFormed("unknown",
                     Some([proposed_changes |->
                               Some(<<<<"abstraction_level", "abstract">>>>),
                           comment |-> Some("c")])))}

\* a Kernel over an empty pool, built with the widest gap between perturbations
InitCycle ==
    /\ InitKernel
    /\ content = <<>>
    /\ perturbation_min = MaxGap

BeginCycle == run_cycle_begin(MaxFaultyCycle)

TurnA ==
    /\ pc = "agent_a"
    /\ run_agent_cycle(AGENT_A_NAME, AGENT_B_NAME, current_cycle, perturbation,
                       ThinkOutcomes, BOOLEAN, BOOLEAN, "agent_b")
    /\ UNCHANGED returned

TurnB_mut ==
    /\ pc = "agent_b"
    /\ run_agent_cycle(AGENT_A_NAME, AGENT_B_NAME, current_cycle, perturbation,
                       ThinkOutcomes, BOOLEAN, BOOLEAN, "idle")
    /\ returned' = IF pc' = "idle"
                   THEN Some(<<Val(artifacts[AGENT_A_NAME]), Val(artifacts'[AGENT_A_NAME])>>)
                   ELSE None

TurnB ==
    /\ pc = "agent_b"
    /\ run_agent_cycle(AGENT_B_NAME, AGENT_A_NAME, current_cycle, perturbation,
                       ThinkOutcomes, BOOLEAN, BOOLEAN, "idle")
    /\ Return

NextCycle == BeginCycle \/ TurnA \/ TurnB
SpecCycle == InitCycle /\ [][NextCycle]_vars

----------------------------------------------------------------------------
(* The cycle loop across restarts, when any step of a turn may fail *)

\* what the call to the language model can end with: an exception, an
\* artifact, or an artifact whose profile update makes update raise
RestartOutcomes ==
    {None,
     Some(WellFormed("partial_theory", None)),
     Some(WellFormed("partial_theory",
                     Some([proposed_changes |->
                               Some(<<<<"abstraction_level", "abstract">>>>),
                           comment |-> None])))}

StoredTurnA_mut ==
    /\ pc = "agent_a"
    /\ run_agent_cycle(AGENT_A_NAME, AGENT_B_NAME, current_cycle + 1, perturbation,
                       RestartOutcomes, BOOLEAN, BOOLEAN, "agent_b")
    /\ UNCHANGED returned

StoredTurnA ==
    /\ pc = "agent_a"
    /\ run_agent_cycle(AGENT_A_NAME, AGENT_B_NAME, current_cycle, perturbation,
                       RestartOutcomes, BOOLEAN, BOOLEAN, "agent_b")
    /\ UNCHANGED returned

StoredTurnB_mut ==
    /\ pc = "agent_b"
    /\ run_agent_cycle(AGENT_A_NAME, AGENT_B_NAME, current_cycle, perturbation,
                       RestartOutcomes, BOOLEAN, BOOLEAN, "idle")
    /\ returned' = None

StoredTurnB ==
    /\ pc = "agent_b"
    /\ run_agent_cycle(AGENT_B_NAME, AGENT_A_NAME, current_cycle, perturbation,
                       RestartOutcomes, BOOLEAN, BOOLEAN, "idle")
    /\ Return

NextRestart == RunCycleBegin \/ StoredTurnA \/ StoredTurnB \/ Restart
SpecRestart == InitCycle /\ [][NextRestart]_vars

----------------------------------------------------------------------------
(* The cycle loop across restarts, over profile files found at the start *)

\* a profile file of an earlier run of agent n: preferences that are not the
\* defaults, and one history entry
EarlierProfile(n) ==
    [agent_name |-> n,
     preferences |-> [DefaultPreferences EXCEPT !.other_focus = 8],
     history |-> <<[cycle_id |-> 0, before |-> DefaultPreferences,
                    changes |-> <<<<"other_focus", 8>>>>, comment |-> "",
                    after |-> [DefaultPreferences EXCEPT !.other_focus = 8]]>>]

\* the profile files create_kernel finds: none, or the first agent's
FoundProfiles ==
    {[n \in AgentNames |-> None],
     [n \in AgentNames |-> IF n = AGENT_A_NAME THEN Some(save(EarlierProfile(n)))
                           ELSE None]}

InitProfileFile ==
    /\ \E found \in FoundProfiles : create_kernel(found)
    /\ content = <<>>
    /\ perturbation_min = MaxGap

\* what the language model answers: an artifact that proposes no change, or
\* one that proposes a change
ProposingOutcomes ==
    {Some(WellFormed("partial_theory", None)),
     Some(WellFormed("partial_theory",
                     Some([proposed_changes |-> Some(<<<<"self_focus", 1>>>>),
                           comment |-> None])))}

ProposingTurnA ==
    /\ pc = "agent_a"
    /\ run_agent_cycle(AGENT_A_NAME, AGENT_B_NAME, current_cycle, perturbation,
                       ProposingOutcomes, {TRUE}, {TRUE}, "agent_b")
    /\ UNCHANGED returned

ProposingTurnB ==
    /\ pc = "agent_b"
    /\ run_agent_cycle(AGENT_B_NAME, AGENT_A_NAME, current_cycle, perturbation,
                       ProposingOutcomes, {TRUE}, {TRUE}, "idle")
    /\ Return

NextProfileFile == BeginCycle \/ ProposingTurnA \/ ProposingTurnB \/ Restart
SpecProfileFile == InitProfileFile /\ [][NextProfileFile]_vars

----------------------------------------------------------------------------
(* _generate_perturbation on logs old enough to draw from *)

\* a description longer than the excerpt a summary keeps
LongDescription == [i \in 1..(SummaryExcerptLength + 1) |-> "y"]

\* the log as run_cycle writes it: agent A then agent B, cycle after cycle,
\* each with a short or a long description
AppendOld ==
    \E description \in {<<"d">>, LongDescription} :
        /\ Len(cache) < MaxOldLog
        /\ IsNone(chosen)
        /\ EnvAppend(Artifact(IF Len(cache) % 2 = 0 THEN AGENT_A_NAME ELSE AGENT_B_NAME,
                              Len(cache) \div 2 + 1, Len(cache), "partial_theory",
                              ArtifactContent(description, <<>>,
                                              MetaCognition("s", "i", <<"u">>)),
                              None, None))
        /\ UNCHANGED <<worldVars, profileVars, raised, kernelVars, clock, restarts,
                       resolveVars>>

\* the cycles at which a perturbation is generated: around the ends of the
\* two windows
PerturbationCycles ==
    {w + k : w \in {SummaryWindow, OldTraceWindow}, k \in 1..(MaxOldLog \div 2 + 1)}

\* _generate_perturbation() when current_cycle is cur
GeneratePerturbation ==
    \E cur \in PerturbationCycles, k \in 1..Len(perturbation_types) :
        /\ current_cycle' = cur
        /\ chosen' = Some(perturbation_types[k])
        /\ perturbation' \in perturbation_of(perturbation_types[k], cache, cur)
        /\ UNCHANGED <<envVars, worldVars, profileVars, raised, perturbation_min,
                       perturbation_max, next_perturbation_cycle, pc, raw_output,
                       artifacts, returned, used_cycles, calls, think_in, fired,
                       base_cycle, clock, restarts, resolveVars>>

NextPerturb == AppendOld \/ GeneratePerturbation
SpecPerturb == InitEnv /\ [][NextPerturb]_vars

----------------------------------------------------------------------------
(* The pool alone: add_content *)

\* the entries handed to add_content: two categories with two entries, one
\* with one; titles and bodies differ in letters and in case
WorldEntries ==
    {WorldContent("text_001", "text", <<"A", "b">>, <<"a">>),
     WorldContent("text_002", "text", <<"b">>, <<"b">>),
     WorldContent("code_001", "code", <<"b">>, <<"B", "a">>),
     WorldContent("code_002", "code", <<"a">>, <<"b">>),
     WorldContent("data_001", "data", <<"B">>, <<"A">>)}

\* World.get_by_id(content_id) is None
NotInPool(id) == \A i \in 1..Len(content) : content[i].id # id

\* World.add_content(content), called as seed_world_with_samples calls it:
\* for an id the pool does not hold
AddContent ==
    \E e \in WorldEntries :
        /\ Len(content) < MaxPool
        /\ NotInPool(e.id)
        /\ content' = Append(content, e)
        /\ by_type' = [by_type EXCEPT ![e.content_type] = Append(@, e.id)]
        /\ content_file' = Append(content_file, e)
        /\ UNCHANGED <<envVars, profileVars, raised, kernelVars, clock, restarts,
                       resolveVars>>

NextWorld == AddContent
SpecWorld == InitEnv /\ [][NextWorld]_vars

----------------------------------------------------------------------------
(* The pool and its file: add_content under any id, seeding, reopening *)

\* the samples seed_world_with_samples holds: ids that differ, of each type
SeedSamples ==
    PoolEntries \o <<WorldContent("data_001", "data", <<"B">>, <<"A">>)>>

\* entries handed to add_content that are no seed samples: one id, under two
\* types
OtherEntries ==
    {WorldContent("note_001", "text", <<"a">>, <<"a">>),
     WorldContent("note_001", "code", <<"a">>, <<"b">>)}

\* the World as the variables hold it
TheWorld == [content |-> content, by_type |-> by_type, content_file |-> content_file]

\* the variables hold the World w after the call `callee`, which raised `exc`
WorldBecomes(w, callee, exc) ==
    /\ content' = w.content
    /\ by_type' = w.by_type
    /\ content_file' = w.content_file
    /\ raised' = exc
    /\ calls' = <<Call(None, callee, None)>>
    /\ UNCHANGED <<envVars, profileVars, perturbation_min, perturbation_max,
                   next_perturbation_cycle, current_cycle, pc, perturbation,
                   chosen, raw_output, artifacts, returned, used_cycles,
                   think_in, fired, base_cycle, clock, restarts, resolveVars>>

\* World.add_content(content) with an entry that is no seed sample
AddOther ==
    \E e \in OtherEntries :
        /\ Len(content_file) < MaxPoolFile
        /\ WorldBecomes(add_content(TheWorld, e), "add_content", None)

\* seed_world_with_samples(world), ended by the storage or not
SeedWorld ==
    \E writes \in 0..Len(SeedSamples) :
        LET r == seed_world_with_samples(TheWorld, SeedSamples, writes)
        IN  /\ writes < Len(SeedSamples) => ~IsNone(r.raised)
            /\ WorldBecomes(r.world, "seed_world_with_samples", r.raised)

\* World(storage_path) on the path of the file
ReopenWorld ==
    WorldBecomes(load_content(EmptyWorld(content_file), content_file), "World", None)

NextPool == AddOther \/ SeedWorld \/ ReopenWorld
SpecPool == InitEnv /\ [][NextPool]_vars

----------------------------------------------------------------------------
(* C1 *)

AscAll == QueryOne(cache, [NoFilter EXCEPT !.order = "asc"])

\* the result holds every position of the log exactly once
IsPermutationOfLog(r) ==
    /\ Len(r) = Len(cache)
    /\ Range(r) = 1..Len(cache)

\* C1 as stated: an unfiltered ascending query returns every appended record
\* once, in nondecreasing cycle_id order, and records of one cycle in the
\* order in which they were appended.
C1_TiesByInsertionOrder ==
    /\ IsPermutationOfLog(AscAll)
    /\ \A i, j \in 1..Len(AscAll) :
        i < j => /\ cache[AscAll[i]].cycle_id <= cache[AscAll[j]].cycle_id
                 /\ cache[AscAll[i]].cycle_id = cache[AscAll[j]].cycle_id
                        => AscAll[i] < AscAll[j]

\* C1 amended: an unfiltered ascending query returns every appended record
\* once, in nondecreasing cycle_id order; records of one cycle are in
\* nondecreasing timestamp order, and only records equal in cycle_id and
\* timestamp are in the order in which they were appended.
C1_TiesByTimestampThenInsertion ==
    /\ IsPermutationOfLog(AscAll)
    /\ \A i, j \in 1..Len(AscAll) :
        i < j =>
            LET a == cache[AscAll[i]]
                b == cache[AscAll[j]]
            IN  /\ a.cycle_id <= b.cycle_id
                /\ a.cycle_id = b.cycle_id => a.timestamp <= b.timestamp
                /\ (a.cycle_id = b.cycle_id /\ a.timestamp = b.timestamp)
                        => AscAll[i] < AscAll[j]

\* a log where a cycle's later append carries the earlier timestamp, a tie in
\* cycle and timestamp, and a lower cycle appended last
C1_Witness ==
    /\ Len(cache) = 3
    /\ cache[1].cycle_id = 2 /\ cache[1].timestamp = 1
    /\ cache[2].cycle_id = 2 /\ cache[2].timestamp = 0
    /\ cache[3].cycle_id = 1
    /\ AscAll = <<3, 2, 1>>

----------------------------------------------------------------------------
(* C9 *)

\* the filters F1 and F2 range over, by parameter of Environment.query
FilterParams ==
    <<"agent_name", "artifact_type", "cycle_range", "before_cycle", "after_cycle",
      "has_uncertainty", "has_profile_update">>

FilterValues(p) ==
    CASE p = "agent_name" -> {Some(AGENT_A_NAME), Some("")}
      [] p = "artifact_type" -> {Some("silence")}
      [] p = "cycle_range" -> {Some(<<1, hi>>) : hi \in 1..MaxCycleId}
      [] p = "before_cycle" -> {Some(MaxCycleId)}
      [] p = "after_cycle" -> {Some(1)}
      [] p = "has_uncertainty" -> {Some(b) : b \in BOOLEAN}
      [] p = "has_profile_update" -> {Some(b) : b \in BOOLEAN}

\* query(p1=v1), query(p2=v2) and query(p1=v1, p2=v2), the rest at its default
With1(p, v) == [NoFilter EXCEPT ![p] = v]
With2(p1, v1, p2, v2) == [NoFilter EXCEPT ![p1] = v1, ![p2] = v2]

Returned(f) == Range(QueryOne(cache, f))

\* C9: for any log and any two filters F1, F2 of query, the records returned
\* with both supplied are exactly those returned with F1 alone and with F2 alone.
C9_FilterConjunction ==
    \A k1, k2 \in 1..Len(FilterParams) :
        k1 < k2 =>
            \A v1 \in FilterValues(FilterParams[k1]), v2 \in FilterValues(FilterParams[k2]) :
                Returned(With2(FilterParams[k1], v1, FilterParams[k2], v2))
                    = Returned(With1(FilterParams[k1], v1))
                        \cap Returned(With1(FilterParams[k2], v2))

\* an agent filter and a profile-update filter that each keep a record the
\* other drops
C9_Witness ==
    LET f1 == With1("agent_name", Some(AGENT_A_NAME))
        f2 == With1("has_profile_update", Some(TRUE))
    IN  /\ Returned(f1) \ Returned(f2) # {}
        /\ Returned(f2) \ Returned(f1) # {}

----------------------------------------------------------------------------
(* C10 *)

\* C10: a new Environment on the same storage path replays the file into the
\* record sequence the closed one held: same records, same order.
C10_ReloadIsIdentity == [][Reload => cache' = cache]_vars

\* a replayed log of several records, one with a caller-given id, one with a
\* derived id and a nonzero timestamp
C10_Witness ==
    /\ loaded
    /\ Len(cache) >= 2
    /\ \E i \in 1..Len(cache) : cache[i].id = Some(<<"custom", 0, 0>>)
    /\ \E i \in 1..Len(cache) :
        /\ cache[i].id = Some(DerivedId(AGENT_B_NAME, 1, 1))
        /\ cache[i].timestamp = 1

----------------------------------------------------------------------------
(* C7 *)

IdsOf(positions) == [k \in 1..Len(positions) |-> cache[positions[k]].id]

\* the items of s whose value did not occur earlier in s, in the order of s
RECURSIVE FirstOccurrences(_)
FirstOccurrences(s) ==
    IF s = <<>> THEN <<>>
    ELSE LET init == SubSeq(s, 1, Len(s) - 1)
             last == s[Len(s)]
         IN  IF last \in Range(init) THEN FirstOccurrences(init)
             ELSE Append(FirstOccurrences(init), last)

\* C7: the log context holds each record (a record being its id) that some
\* request returned exactly once, at the place of its first occurrence in the
\* concatenated per-request results; no id appears twice.
C7_LogContextDeduplicated ==
    /\ NoDup(IdsOf(env_traces))
    /\ IdsOf(env_traces) = FirstOccurrences(IdsOf(env_fetched))
    /\ \A k \in 1..Len(env_traces) :
        LET first == CHOOSE j \in 1..Len(env_fetched) :
                        /\ cache[env_fetched[j]].id = cache[env_traces[k]].id
                        /\ \A i \in 1..(j - 1) :
                            cache[env_fetched[i]].id # cache[env_traces[k]].id
        IN  env_traces[k] = env_fetched[first]

\* two requests returned overlapping results: a record came back twice with
\* another record between its two occurrences
C7_Witness ==
    /\ Len(env_fetched) >= 3
    /\ \E i, j, k \in 1..Len(env_fetched) :
        /\ i < j /\ j < k
        /\ env_fetched[i] = env_fetched[k]
        /\ cache[env_fetched[i]].id # cache[env_fetched[j]].id
    /\ Len(env_traces) = 2

----------------------------------------------------------------------------
(* C8 *)

\* C8: the pool context handed to the think-step holds no entry id twice.
C8_PoolContextHasNoDuplicates ==
    NoDup([k \in 1..Len(world_content) |-> world_content[k].id])

----------------------------------------------------------------------------
(* C2 *)

\* C2: whatever update was handed, the bounded parameters of every profile
\* stay in [0,1]: a value outside is left out and the parameter keeps its
\* previous value.
C2_BoundedParametersInRange ==
    \A n \in AgentNames : \A k \in BoundedParams : preferences[n][k] \in 0..10

----------------------------------------------------------------------------
(* C3 *)

\* C3: update does not raise on a categorical value outside its enumeration;
\* it has recorded one history entry for every call with proposed changes.
C3_UpdateNeverRaises ==
    /\ IsNone(raised)
    /\ \A n \in AgentNames : \A k \in 1..Len(history[n]) :
        /\ history[n][k].after.abstraction_level \in AbstractionLevels
        /\ history[n][k].after.complexity_target \in ComplexityTargets

----------------------------------------------------------------------------
(* C4 *)

ThoughtThisCycle(n) ==
    /\ ~IsNone(think_in[n])
    /\ Val(think_in[n]).cycle_id = current_cycle

\* C4: in a cycle, the perturbation handed to the second agent's think-step is
\* the one handed to the first agent's (or both are absent), and it is the one
\* computed, once, before either agent ran.
C4_SamePerturbationForBoth ==
    /\ \A n \in AgentNames :
        ThoughtThisCycle(n) => Val(think_in[n]).perturbation = perturbation
    /\ (ThoughtThisCycle(AGENT_A_NAME) /\ ThoughtThisCycle(AGENT_B_NAME))
        => Val(think_in[AGENT_B_NAME]).perturbation
            = Val(think_in[AGENT_A_NAME]).perturbation
    /\ NoDup(fired)

\* a cycle in which a perturbation fired with a payload and both agents thought
C4_Witness ==
    /\ pc = "idle"
    /\ ThoughtThisCycle(AGENT_A_NAME) /\ ThoughtThisCycle(AGENT_B_NAME)
    /\ fired # <<>> /\ fired[Len(fired)] = current_cycle
    /\ ~IsNone(Val(think_in[AGENT_A_NAME]).perturbation)
    /\ ~IsNone(Val(think_in[AGENT_B_NAME]).perturbation)

----------------------------------------------------------------------------
(* C5 *)

\* C5: a Kernel built over a log whose latest cycle is L schedules the next
\* perturbation at L + r, perturbation_min <= r <= perturbation_max, so none
\* fires at a cycle below L + perturbation_min.
C5_ScheduledFromLatestCycle ==
    /\ (current_cycle = base_cycle /\ pc = "idle")
        => next_perturbation_cycle \in
            (base_cycle + perturbation_min)..(base_cycle + perturbation_max)
    /\ \A k \in 1..Len(fired) : fired[k] >= base_cycle + perturbation_min

----------------------------------------------------------------------------
(* C6 *)

LastFiring == IF fired = <<>> THEN 0 ELSE fired[Len(fired)]

\* C6: on a Kernel built over an empty log, the first firing is at a cycle in
\* [perturbation_min, perturbation_max] and consecutive firings are that far
\* apart; a firing is never late; with perturbation_min = perturbation_max = g
\* the firings are exactly at g, 2g, 3g, ...
C6_FiringGaps ==
    base_cycle = 0 =>
        /\ \A k \in 1..Len(fired) :
            (fired[k] - (IF k = 1 THEN 0 ELSE fired[k - 1]))
                \in perturbation_min..perturbation_max
        /\ (next_perturbation_cycle - LastFiring)
                \in perturbation_min..perturbation_max
        /\ current_cycle < next_perturbation_cycle
        /\ perturbation_min = perturbation_max
            => /\ \A k \in 1..Len(fired) : fired[k] = k * perturbation_min
               /\ Len(fired) = current_cycle \div perturbation_min

\* a Kernel built over an empty log with gaps wider than one cycle, after its
\* second firing, cycles without firing in between
C6_Witness ==
    /\ base_cycle = 0
    /\ restarts = 0
    /\ perturbation_min > 1
    /\ Len(fired) = 2
    /\ fired[2] - fired[1] > 1
    /\ pc = "idle"

----------------------------------------------------------------------------
(* C11 *)

\* a Kernel that has run no cycle since it was built
JustBuilt == pc = "idle" /\ \A n \in AgentNames : IsNone(think_in[n])

\* the Kernel starts at the largest cycle number of the log, 0 on an empty log
StartsAtLatest ==
    JustBuilt =>
        /\ \A i \in 1..Len(cache) : cache[i].cycle_id <= current_cycle
        /\ cache = <<>> => current_cycle = 0
        /\ cache # <<>> => \E i \in 1..Len(cache) : cache[i].cycle_id = current_cycle

\* C11 as stated: a Kernel starts at the log's latest cycle L (0 when empty)
\* and the cycle numbers of successive run_cycle calls, across restarts, are
\* strictly increasing.
C11_CycleNumbersStrictlyIncreasing ==
    /\ StartsAtLatest
    /\ \A i, j \in 1..Len(used_cycles) :
        i < j => used_cycles[i][2] < used_cycles[j][2]

\* C11 as amended: a Kernel starts at the log's latest cycle L (0 when empty);
\* within one process successive run_cycle calls are numbered L+1, L+2, ...;
\* across restarts a call's number is larger than every cycle number in the
\* log when the call starts, so the cycle numbers along the log never decrease.
C11_ResumesAfterLatestLoggedCycle ==
    /\ StartsAtLatest
    /\ \A i, j \in 1..Len(used_cycles) :
        (i < j /\ used_cycles[i][1] = used_cycles[j][1])
            => used_cycles[i][2] < used_cycles[j][2]
    /\ \A i \in 1..Len(used_cycles) :
        (used_cycles[i][1] = restarts
            /\ \A j \in 1..(i - 1) : used_cycles[j][1] # restarts)
            => used_cycles[i][2] = base_cycle + 1
    /\ used_cycles # <<>> /\ used_cycles[Len(used_cycles)][1] = restarts
        => current_cycle = used_cycles[Len(used_cycles)][2]
    /\ pc = "agent_a" => \A i \in 1..Len(cache) : cache[i].cycle_id < current_cycle
    /\ \A i, j \in 1..Len(cache) : i < j => cache[i].cycle_id <= cache[j].cycle_id

\* a restart over a log that holds cycles, and the first cycle after it done
C11_Witness ==
    /\ restarts > 0
    /\ base_cycle > 0
    /\ pc = "idle"
    /\ ~IsNone(returned)
    /\ current_cycle = base_cycle + 1

----------------------------------------------------------------------------
(* C12 *)

\* the think-step of agent n answered in this cycle, and the answer is no
\* JSON, or JSON that cannot be built into an artifact
Malformed(n) ==
    /\ ~IsNone(raw_output[n])
    /\ \/ ~IsNone(Val(raw_output[n]).loads_raises)
       \/ ~Val(Val(raw_output[n]).data).buildable

\* the storage refused the append of agent n's artifact
AppendFailed(n) ==
    /\ ~IsNone(raw_output[n])
    /\ IsNone(artifacts[n])
    /\ raised = Some("OSError")

\* C12: malformed think-step output does not abort run_cycle: unless the
\* storage fails, an artifact with the agent's name and the cycle number is
\* appended for it, the other agent's turn runs, and run_cycle returns both
\* artifacts.
C12_MalformedOutputIsAbsorbed ==
    \A n \in AgentNames :
        (Malformed(n) /\ ~AppendFailed(n)) =>
            /\ ~IsNone(artifacts[n])
            /\ Val(artifacts[n]).agent_name = n
            /\ Val(artifacts[n]).cycle_id = current_cycle
            /\ cache # <<>>
            /\ \E i \in 1..Len(cache) : cache[i] = Val(artifacts[n])
            /\ pc = "agent_b" => n = AGENT_A_NAME /\ ENABLED TurnB
            /\ pc = "aborted" =>
                /\ n = AGENT_A_NAME
                /\ ~IsNone(think_in[AGENT_B_NAME])
                /\ Val(think_in[AGENT_B_NAME]).cycle_id = current_cycle
            /\ pc = "idle" =>
                returned = Some(<<Val(artifacts[AGENT_A_NAME]),
                                  Val(artifacts[AGENT_B_NAME])>>)

----------------------------------------------------------------------------
(* C13 *)

\* what _parse_output hands to _create_error_artifact for agent n's answer
ErrorInfo(n) ==
    IF ~IsNone(Val(raw_output[n]).loads_raises)
    THEN Val(raw_output[n]).text
    ELSE <<"Parse error: ", "\n\nRaw: ">> \o Val(raw_output[n]).text

\* C13: the artifact synthesized for malformed output has category
\* "unparseable", exactly one reasoning step holding the error or raw output
\* cut to the excerpt length, and non-empty meta-reflection fields.
C13_FallbackIsUnparseable ==
    \A n \in AgentNames :
        (Malformed(n) /\ ~IsNone(artifacts[n])) =>
            LET a == Val(artifacts[n])
            IN  /\ a.artifact_type = "unparseable"
                /\ Len(a.artifact.steps) = 1
                /\ Len(a.artifact.steps[1].content) <= ErrorExcerptLength
                /\ a.artifact.steps[1].content
                    = SubSeq(ErrorInfo(n), 1, Len(a.artifact.steps[1].content))
                /\ Len(ErrorInfo(n)) > ErrorExcerptLength
                    => Len(a.artifact.steps[1].content) = ErrorExcerptLength
                /\ a.artifact.meta_cognition.self_observation # ""
                /\ a.artifact.meta_cognition.influence_of_other_agent # ""
                /\ Strip(a.artifact.meta_cognition.uncertainties) # <<>>

----------------------------------------------------------------------------
(* C14 *)

\* every record of the in-memory index is in the file, at the same position
IndexInFile ==
    /\ Len(cache) <= Len(file)
    /\ \A i \in 1..Len(cache) : file[i] = model_dump_json(cache[i])

\* C14: append writes the record to the file before it adds it to the index:
\* in every state every record of the index is in the file at the same
\* position, and an append whose write fails raises and leaves the index as
\* it was.
C14_WriteThenCache ==
    /\ []IndexInFile
    /\ [][raised' = Some("OSError") => cache' = cache]_vars

\* an append that failed on a log that holds records
C14_Witness ==
    /\ raised = Some("OSError")
    /\ cache # <<>>
    /\ Len(file) = Len(cache)

----------------------------------------------------------------------------
(* C15 *)

IsPrefix(s, t) == Len(s) <= Len(t) /\ s = SubSeq(t, 1, Len(s))

\* C15: the log is append-only: whatever step is taken (a run_cycle step with
\* its queries, read-request resolution and append, or a replay of the file
\* by a new process), the log's record sequence before the step is a prefix
\* of its sequence after, in the index and in the file.
C15_LogIsAppendOnly ==
    [][IsPrefix(cache, cache') /\ IsPrefix(file, file')]_vars

\* after a replay of a log that holds records, an agent's turn has resolved
\* its read-requests on it and appended to it
C15_Witness ==
    /\ restarts > 0
    /\ base_cycle > 0
    /\ pc = "agent_b"
    /\ Len(cache) > 2
    /\ ~IsNone(think_in[AGENT_A_NAME])
    /\ Val(think_in[AGENT_A_NAME]).env_traces # <<>>

----------------------------------------------------------------------------
(* C16 *)

\* the positions of the log that hold agent n's artifacts of cycle c
ArtifactsOf(n, c) ==
    {i \in 1..Len(cache) : cache[i].agent_name = n /\ cache[i].cycle_id = c}

\* C16: when run_cycle has returned for cycle c, the log (index and file)
\* holds exactly one artifact of the first agent and exactly one of the
\* second with cycle_id = c, and the pair returned is these two, the first
\* agent's first.
C16_OneArtifactPerAgentPerCycle ==
    (pc = "idle" /\ ~IsNone(returned)) =>
        /\ \A n \in AgentNames : Cardinality(ArtifactsOf(n, current_cycle)) = 1
        /\ \A i \in ArtifactsOf(AGENT_A_NAME, current_cycle) :
            /\ Val(returned)[1] = cache[i]
            /\ i <= Len(file) /\ file[i] = model_dump_json(cache[i])
        /\ \A i \in ArtifactsOf(AGENT_B_NAME, current_cycle) :
            /\ Val(returned)[2] = cache[i]
            /\ i <= Len(file) /\ file[i] = model_dump_json(cache[i])

\* the second cycle has returned, with a fallback artifact for one agent and
\* a well-formed one for the other
C16_Witness ==
    /\ pc = "idle"
    /\ ~IsNone(returned)
    /\ current_cycle = 2
    /\ Val(returned)[1].artifact_type = "hypothesis_chain"
    /\ Val(returned)[2].artifact.steps[1].label = "error"

----------------------------------------------------------------------------
(* C17 *)

\* the profile of agent n is as its last recorded change left it
ProfileAsRecorded(n) ==
    preferences[n] = IF history[n] = <<>> THEN DefaultPreferences
                     ELSE history[n][Len(history[n])].after

\* agent n's profile holds a change made in cycle c
UpdatedIn(n, c) ==
    \E k \in 1..Len(history[n]) : history[n][k].cycle_id = c

\* C17: when the storage refuses an agent's append in run_cycle, the error
\* leaves run_cycle, with no retry and no rollback: current_cycle stays
\* incremented, nothing of that agent is in the log for the cycle and its
\* profile is not updated, while the first agent's artifact, if its turn was
\* over, stays in the log with its profile update applied.
C17_StorageErrorIsFatalNoRollback ==
    \A n \in AgentNames :
        AppendFailed(n) =>
            /\ pc = "aborted"
            /\ used_cycles # <<>>
            /\ current_cycle = used_cycles[Len(used_cycles)][2]
            /\ current_cycle = Len(used_cycles)
            /\ ArtifactsOf(n, current_cycle) = {}
            /\ Len(file) = Len(cache)
            /\ ~UpdatedIn(n, current_cycle)
            /\ ProfileAsRecorded(n)
            /\ n = AGENT_B_NAME =>
                /\ ~IsNone(artifacts[AGENT_A_NAME])
                /\ \E i \in ArtifactsOf(AGENT_A_NAME, current_cycle) :
                    cache[i] = Val(artifacts[AGENT_A_NAME])
                /\ HasProposedChanges(Val(artifacts[AGENT_A_NAME]))
                    => /\ UpdatedIn(AGENT_A_NAME, current_cycle)
                       /\ ProfileAsRecorded(AGENT_A_NAME)

\* the second agent's append failed in a cycle in which both agents proposed
\* a profile change and the first agent's was applied
C17_Witness ==
    /\ AppendFailed(AGENT_B_NAME)
    /\ ~IsNone(artifacts[AGENT_A_NAME])
    /\ HasProposedChanges(Val(artifacts[AGENT_A_NAME]))
    /\ UpdatedIn(AGENT_A_NAME, current_cycle)
    /\ ~IsNone(Val(raw_output[AGENT_B_NAME]).data)
    /\ ~IsNone(Val(Val(raw_output[AGENT_B_NAME]).data).profile_update)

----------------------------------------------------------------------------
(* C18 *)

\* the kind of perturbation has nothing to draw from at cycle c
SourceUnavailable(kind, c) ==
    CASE kind = "old_trace" ->
            \A i \in 1..Len(cache) : ~(cache[i].cycle_id < Max(1, c - OldTraceWindow))
      [] kind = "anomalous_world" -> content = <<>>
      [] kind = "compressed_summary" ->
            \A i \in 1..Len(cache) : ~(cache[i].cycle_id < Max(1, c - SummaryWindow))

\* run_cycle has just fired a perturbation and stands before the first turn
JustFired ==
    /\ pc = "agent_a"
    /\ fired # <<>>
    /\ fired[Len(fired)] = current_cycle

\* C18: a firing whose chosen kind has no source data yields no perturbation
\* for the cycle, without an exception and without another kind standing in,
\* and the next due cycle is set to cycle + r, r in
\* [perturbation_min, perturbation_max], all the same.
C18_NoSourceNoPerturbation ==
    JustFired =>
        /\ ~IsNone(chosen)
        /\ SourceUnavailable(Val(chosen), current_cycle) => IsNone(perturbation)
        /\ ~IsNone(perturbation) => Val(perturbation)[1] = Val(chosen)
        /\ IsNone(raised)
        /\ next_perturbation_cycle \in
            (current_cycle + perturbation_min)..(current_cycle + perturbation_max)

\* a firing that chose the old trace on a log too young for one, with a pool
\* that another kind could have drawn from
C18_Witness ==
    /\ JustFired
    /\ chosen = Some("old_trace")
    /\ cache # <<>>
    /\ content # <<>>
    /\ IsNone(perturbation)

----------------------------------------------------------------------------
(* C19 *)

PerturbationIs(kind) == ~IsNone(perturbation) /\ Val(perturbation)[1] = kind

\* the log records older than the window of width w at cycle c
OlderThan(w, c) == {i \in 1..Len(cache) : cache[i].cycle_id < Max(1, c - w)}

\* C19: a perturbation generated at cycle c uses only records older than its
\* kind's window: an old_trace carries a record with cycle_id < max(1, c - 20),
\* a compressed_summary only records with cycle_id < max(1, c - 10); so, the
\* log's cycles starting at 1, there is no old_trace at c <= 21 and no
\* compressed_summary at c <= 11.
C19_OnlyRecordsOlderThanWindow ==
    /\ PerturbationIs("old_trace") =>
        /\ Val(perturbation)[2][1][2] < Max(1, current_cycle - OldTraceWindow)
        /\ \E i \in OlderThan(OldTraceWindow, current_cycle) :
            /\ cache[i].agent_name = Val(perturbation)[2][1][1]
            /\ cache[i].cycle_id = Val(perturbation)[2][1][2]
        /\ current_cycle > OldTraceWindow + 1
    /\ PerturbationIs("compressed_summary") =>
        /\ \A k \in 1..Len(Val(perturbation)[2]) :
            /\ Val(perturbation)[2][k][2] < Max(1, current_cycle - SummaryWindow)
            /\ \E i \in OlderThan(SummaryWindow, current_cycle) :
                /\ cache[i].agent_name = Val(perturbation)[2][k][1]
                /\ cache[i].cycle_id = Val(perturbation)[2][k][2]
        /\ current_cycle > SummaryWindow + 1

\* an old trace drawn at the first cycle that allows one, from a log that
\* also holds a record too young for it
C19_Witness ==
    /\ PerturbationIs("old_trace")
    /\ current_cycle = OldTraceWindow + 2
    /\ \E i \in 1..Len(cache) : cache[i].cycle_id >= Max(1, current_cycle - OldTraceWindow)

----------------------------------------------------------------------------
(* C20 *)

\* the fragments are those of distinct records older than the summary window,
\* each description cut to the excerpt length
FragmentsOfDistinctRecords(fragments) ==
    \E r \in [1..Len(fragments) -> OlderThan(SummaryWindow, current_cycle)] :
        /\ \A j, k \in 1..Len(fragments) : j # k => r[j] # r[k]
        /\ \A k \in 1..Len(fragments) :
            LET description == cache[r[k]].artifact.description
            IN  /\ fragments[k][1] = cache[r[k]].agent_name
                /\ fragments[k][2] = cache[r[k]].cycle_id
                /\ fragments[k][3] =
                    SubSeq(description, 1, Min(SummaryExcerptLength, Len(description)))

\* C20 as stated: every compressed_summary perturbation concatenates the
\* fragments of three distinct log records, each description excerpt cut to
\* 50 characters.
C20_ThreeFragments ==
    PerturbationIs("compressed_summary") =>
        /\ Len(Val(perturbation)[2]) = SummarySample
        /\ FragmentsOfDistinctRecords(Val(perturbation)[2])

\* C20 as amended: every compressed_summary perturbation concatenates the
\* fragments of distinct log records older than the window, three of them
\* when the log holds at least three such records and all of them otherwise,
\* each description excerpt cut to 50 characters.
C20_UpToThreeFragments ==
    PerturbationIs("compressed_summary") =>
        /\ Len(Val(perturbation)[2])
            = Min(SummarySample, Cardinality(OlderThan(SummaryWindow, current_cycle)))
        /\ Len(Val(perturbation)[2]) >= 1
        /\ FragmentsOfDistinctRecords(Val(perturbation)[2])

\* a summary of three of four old records, one of them with a description
\* that was cut
C20_Witness ==
    /\ PerturbationIs("compressed_summary")
    /\ Cardinality(OlderThan(SummaryWindow, current_cycle)) > SummarySample
    /\ Len(Val(perturbation)[2]) = SummarySample
    /\ \E k \in 1..Len(Val(perturbation)[2]) :
        Len(Val(perturbation)[2][k][3]) = SummaryExcerptLength

----------------------------------------------------------------------------
(* C21 *)

\* the positions of the records that pass the filter on the agent, if any
Matching(agent_name) ==
    {i \in 1..Len(cache) : IsNone(agent_name) \/ cache[i].agent_name = Val(agent_name)}

\* the key of record i is smaller than, or equal to, the key of record j
KeyLeq(i, j) ==
    \/ cache[i].cycle_id < cache[j].cycle_id
    \/ cache[i].cycle_id = cache[j].cycle_id /\ cache[i].timestamp <= cache[j].timestamp

\* r lists, without repetition, size records of M whose keys are the extreme
\* ones of M, from the most to the least extreme
ExtremeInOrder(r, M, size, descending) ==
    /\ Len(r) = size
    /\ Range(r) \subseteq M
    /\ NoDup(r)
    /\ \A p, q \in 1..Len(r) :
        p < q => IF descending THEN KeyLeq(r[q], r[p]) ELSE KeyLeq(r[p], r[q])
    /\ \A p \in 1..Len(r) : \A i \in M \ Range(r) :
        IF descending THEN KeyLeq(i, r[p]) ELSE KeyLeq(r[p], i)

\* the limits tried: none of the records, some, all, and more than there are
Limits == 0..(MaxSampleLog + 1)

\* C21: query with order="desc" and limit=k, without random_sample, returns
\* the min(k, n) matching records with the greatest (cycle_id, timestamp)
\* keys in descending key order, n being the number of records that pass the
\* filters; with order="asc" the min(k, n) smallest in ascending order.
C21_LimitKeepsExtremeKeysInOrder ==
    \A agent_name \in {None, Some(AGENT_A_NAME)}, k \in Limits, order \in {"asc", "desc"} :
        ExtremeInOrder(
            QueryOne(cache, [NoFilter EXCEPT !.agent_name = agent_name,
                                             !.limit = Some(k), !.order = order]),
            Matching(agent_name),
            Min(k, Cardinality(Matching(agent_name))),
            order = "desc")

\* a log with a record of the other agent, on which limit=1 cuts agent A's
\* records and the greatest key is not that of the last append
C21_Witness ==
    /\ Cardinality(Matching(Some(AGENT_A_NAME))) = 2
    /\ Len(cache) = 3
    /\ QueryOne(cache, [NoFilter EXCEPT !.agent_name = Some(AGENT_A_NAME),
                                        !.limit = Some(1)]) = <<1>>
    /\ cache[2].agent_name = AGENT_A_NAME

----------------------------------------------------------------------------
(* C22 *)

\* query(agent_name, random_sample, limit), the rest at its default
SampleQuery(agent_name, random_sample, limit) ==
    Query(cache, [NoFilter EXCEPT !.agent_name = agent_name,
                                  !.random_sample = random_sample, !.limit = limit])

\* the limits tried with a sample: none, and limits below, at and above the
\* size of a sample
SampleLimits == {None, Some(0), Some(1), Some(2)}

\* C22: random_sample=k is applied to the filtered records before limit=m.
\* With k at least the number of filtered records the results are those of
\* the same query without random_sample; otherwise every result is a
\* duplicate-free subset of the filtered records of size min(k, m) (k when no
\* limit is given), and every filtered record can be drawn into it.
C22_SampleBeforeLimit ==
    \A k \in Limits, limit \in SampleLimits :
        LET agent_name == Some(AGENT_A_NAME)
            R == SampleQuery(agent_name, Some(k), limit)
            M == Matching(agent_name)
            size == IF IsNone(limit) THEN k ELSE Min(k, Val(limit))
        IN  IF k >= Cardinality(M)
            THEN R = SampleQuery(agent_name, None, limit)
            ELSE /\ \A r \in R : NoDup(r) /\ Range(r) \subseteq M /\ Len(r) = size
                 /\ size >= 1 => \A i \in M : \E r \in R : i \in Range(r)

\* three records of distinct cycles, of which random_sample=2 with limit=1
\* can return the oldest, although the query is in descending order
C22_Witness ==
    /\ Len(cache) = 3
    /\ cache[1].cycle_id < cache[2].cycle_id
    /\ cache[1].cycle_id < cache[3].cycle_id
    /\ Cardinality(Matching(Some(AGENT_A_NAME))) = 3
    /\ <<1>> \in SampleQuery(Some(AGENT_A_NAME), Some(2), Some(1))

----------------------------------------------------------------------------
(* C23 *)

\* the arguments of the update call a step of the profile alone has made
UpdateArgs == Val(calls'[1].args)

\* history h2 is history h1 and one more entry
OneMoreEntry(h1, h2) == Len(h2) = Len(h1) + 1 /\ SubSeq(h2, 1, Len(h1)) = h1

\* C23: an update call with non-empty proposed_changes appends exactly one
\* history entry, with the call's cycle_id and comment and with the full
\* preference vectors before and after the call; a call with empty
\* proposed_changes leaves preferences and history unchanged; the entries
\* already in the history are neither altered nor removed.
C23_EveryUpdateRecorded ==
    [][LET n == AGENT_A_NAME
       IN  IF UpdateArgs.proposed_changes = <<>>
           THEN preferences' = preferences /\ history' = history
           ELSE /\ OneMoreEntry(history[n], history'[n])
                /\ LET entry == history'[n][Len(history'[n])]
                   IN  /\ entry.cycle_id = UpdateArgs.cycle_id
                       /\ entry.before = preferences[n]
                       /\ entry.after = preferences'[n]
                       /\ entry.comment = UpdateArgs.comment]_vars

----------------------------------------------------------------------------
(* C24 *)

\* the keys of a proposed_changes dict
Keys(d) == {d[i][1] : i \in 1..Len(d)}

\* C24: an update call with a proposed key that is not a parameter name does
\* not raise, leaves every parameter not named by a valid key unchanged, adds
\* no parameter to the preference vector, applies the valid keys of the call,
\* and records one history entry whose requested changes list all proposed
\* keys.
C24_UnknownKeyRejectedAlone ==
    [][LET n == AGENT_A_NAME
           d == UpdateArgs.proposed_changes
       IN  Keys(d) \ DOMAIN preferences[n] # {} =>
            /\ IsNone(raised')
            /\ DOMAIN preferences'[n] = DOMAIN preferences[n]
            /\ \A key \in DOMAIN preferences[n] \ Keys(d) :
                preferences'[n][key] = preferences[n][key]
            /\ \A i \in 1..Len(d) :
                d[i][1] \in DOMAIN preferences[n] => preferences'[n][d[i][1]] = d[i][2]
            /\ OneMoreEntry(history[n], history'[n])
            /\ history'[n][Len(history'[n])].changes = d]_vars

----------------------------------------------------------------------------
(* C25 *)

\* the steps of one agent's turn, in the order the claim gives
TurnSteps == <<"execute_read_requests", "think", "append", "index_artifact", "update">>

\* what was called for agent n in the run_cycle under way, in order
CalleesOf(n) ==
    LET OfAgent(c) == c.agent = n
        own == SelectSeq(calls, OfAgent)
    IN  [k \in 1..Len(own) |-> own[k].callee]

\* the artifact run_cycle holds for agent n proposes a non-empty set of changes
ProposesChanges(n) ==
    /\ ~IsNone(Val(artifacts[n]).profile_update)
    /\ Len(Val(Val(artifacts[n]).profile_update).proposed_changes) > 0

\* agent n's turn is over: its four unconditional steps were made, its
\* artifact is in the log, and update was called if and only if the artifact
\* proposes changes, with these changes and this cycle
TurnComplete(n) ==
    /\ ~IsNone(artifacts[n])
    /\ SubSeq(CalleesOf(n), 1, 4) = SubSeq(TurnSteps, 1, 4)
    /\ \E i \in 1..Len(cache) : cache[i] = Val(artifacts[n])
    /\ ("update" \in Range(CalleesOf(n))) <=> ProposesChanges(n)
    /\ \A k \in 1..Len(calls) :
        (calls[k].agent = n /\ calls[k].callee = "update") =>
            /\ Val(calls[k].args).proposed_changes
                = Val(Val(artifacts[n]).profile_update).proposed_changes
            /\ Val(calls[k].args).cycle_id = current_cycle
            /\ history[n] # <<>>
            /\ history[n][Len(history[n])].cycle_id = current_cycle

----------------------------------------------------------------------------
(* C26 *)

\* sub occurs in str, letter case aside
ContainsIgnoringCase(sub, str) ==
    \E i \in 0..(Len(str) - Len(sub)) :
        \A k \in 1..Len(sub) : LowerChar(sub[k]) = LowerChar(str[i + k])

\* the entries (of the category, if one is given) whose title or body
\* contains the query, in insertion order
Matches(query, content_type) ==
    LET Hit(c) == /\ IsNone(content_type) \/ c.content_type = Val(content_type)
                  /\ \/ ContainsIgnoringCase(query, c.title)
                     \/ ContainsIgnoringCase(query, c.content)
    IN  SelectSeq(content, Hit)

SearchQueries == {<<>>, <<"a">>, <<"A">>, <<"b", "A">>}
SearchTypes == {None} \cup {Some(t) : t \in Range(ContentTypes)}

\* C26: for every non-negative limit, search(query, content_type, limit)
\* returns the first min(limit, m) of the m entries (of the category, if any)
\* whose title or body contains the query case-insensitively, in insertion
\* order; it never returns more than limit entries.
C26_SearchReturnsFirstMatches ==
    \A query \in SearchQueries, content_type \in SearchTypes, limit \in 0..(MaxPool + 1) :
        LET m == Matches(query, content_type)
        IN  /\ search(query, content_type, limit) = SubSeq(m, 1, Min(limit, Len(m)))
            /\ Len(search(query, content_type, limit)) <= limit

----------------------------------------------------------------------------
(* C27 *)

\* the number of entries of category t in the pool
EntryCount(t) == Cardinality({i \in 1..Len(content) : content[i].content_type = t})

\* no category with entries has fewer entries than t
IsMinority(t) ==
    /\ EntryCount(t) > 0
    /\ \A u \in Range(ContentTypes) : EntryCount(u) > 0 => EntryCount(t) <= EntryCount(u)

----------------------------------------------------------------------------
(* C28 *)

\* the first category, in the order text, code, data, among those with the
\* least non-zero number of entries: a function of the counts alone
FirstMinority ==
    LET order == <<"text", "code", "data">>
    IN  order[CHOOSE i \in 1..3 :
                /\ IsMinority(order[i])
                /\ \A j \in 1..(i - 1) : ~IsMinority(order[j])]

----------------------------------------------------------------------------
(* C29 *)

\* the agent whose turn made the latest call
LastCaller == calls[Len(calls)].agent

\* LastCaller's index_artifact call has failed
IndexFailed == raised = Some("ChromaError")

\* C29: when rag.index_artifact fails, the artifact already appended stays in
\* the log, the artifact's non-empty profile-change proposal is still
\* applied, and the rest of the cycle still runs.
C29_IndexingIsBestEffort ==
    IndexFailed =>
        LET a == cache[Len(cache)]
        IN  /\ a.agent_name = LastCaller /\ a.cycle_id = current_cycle
            /\ file[Len(file)] = model_dump_json(a)
            /\ (~IsNone(a.profile_update)
                    /\ Len(Val(a.profile_update).proposed_changes) > 0) =>
                /\ history[LastCaller] # <<>>
                /\ history[LastCaller][Len(history[LastCaller])].cycle_id = current_cycle
            /\ pc # "aborted"

----------------------------------------------------------------------------
(* C30 *)

\* the persisted log, read back
Persisted == LoadArtifacts(file)

\* no two records of the sequence have the same agent and the same cycle
NoTwoOfSameAgentAndCycle(log) ==
    \A i, j \in 1..Len(log) :
        i < j => ~(log[i].agent_name = log[j].agent_name
                    /\ log[i].cycle_id = log[j].cycle_id)

\* C30: across run_cycle calls, failures at any step of a cycle and restarts
\* that rebuild the Kernel from the persisted log, the log never holds two
\* artifacts with the same agent name and the same cycle number.
C30_NoDuplicateAgentCycle ==
    /\ NoTwoOfSameAgentAndCycle(cache)
    /\ NoTwoOfSameAgentAndCycle(Persisted)

\* a cycle failed after the first agent's append, the process was started
\* again, and the first agent has appended again, in the next cycle
C30_Witness ==
    /\ restarts > 0
    /\ \E i, j \in 1..Len(cache) :
        /\ i < j
        /\ cache[i].agent_name = AGENT_A_NAME
        /\ cache[j].agent_name = AGENT_A_NAME
        /\ cache[j].cycle_id = cache[i].cycle_id + 1
        /\ \A k \in 1..Len(cache) :
            ~(cache[k].agent_name = AGENT_B_NAME /\ cache[k].cycle_id = cache[i].cycle_id)

----------------------------------------------------------------------------
(* C31 *)

\* the records of the log context handed to agent n's think-step
ContextOf(n) ==
    LET handed == Val(think_in[n]).env_traces
    IN  {cache[handed[k]] : k \in 1..Len(handed)}

\* C31: within cycle c the log context handed to the first agent holds only
\* artifacts with cycle_id < c; the second agent's context is resolved after
\* the first agent's append (it may hold the first agent's artifact of cycle
\* c, and nothing else of cycle c); no agent's context holds its own artifact
\* of the current cycle.
C31_ContextPrecedesOwnArtifact ==
    \A n \in AgentNames :
        ThoughtThisCycle(n) =>
            /\ n = AGENT_A_NAME => \A a \in ContextOf(n) : a.cycle_id < current_cycle
            /\ \A a \in ContextOf(n) :
                /\ a.cycle_id <= current_cycle
                /\ ~(a.agent_name = n /\ a.cycle_id = current_cycle)

\* in the second cycle the first agent was handed artifacts of the first
\* cycle, and the second agent the first agent's artifact of the second
C31_Witness ==
    /\ current_cycle = 2
    /\ ThoughtThisCycle(AGENT_A_NAME)
    /\ ThoughtThisCycle(AGENT_B_NAME)
    /\ ContextOf(AGENT_A_NAME) # {}
    /\ \E a \in ContextOf(AGENT_B_NAME) :
        a.agent_name = AGENT_A_NAME /\ a.cycle_id = current_cycle

----------------------------------------------------------------------------
(* C32 *)

\* the cycle numbers in the log
LoggedCycles == {cache[i].cycle_id : i \in 1..Len(cache)}

\* C32: after every run_cycle that returns normally get_latest_cycle_id()
\* equals current_cycle; in every reachable state, a failed cycle included,
\* current_cycle is at least the greatest cycle number in the log.
C32_CounterCoversLog ==
    /\ ~IsNone(returned) =>
        /\ get_latest_cycle_id(cache) = current_cycle
        /\ current_cycle \in LoggedCycles
    /\ \A c \in LoggedCycles : c <= current_cycle

\* the first cycle returned, the second failed before its first append: the
\* counter is ahead of the log
C32_Witness ==
    /\ pc = "aborted"
    /\ current_cycle = 2
    /\ LoggedCycles = {1}
    /\ Len(cache) = 2

----------------------------------------------------------------------------
(* C33 *)

\* the history entries update recorded for agent n in cycle c
EntriesOf(n, c) == {k \in 1..Len(history[n]) : history[n][k].cycle_id = c}

\* every before-snapshot recorded for an artifact's agent and cycle is the
\* artifact's profile_snapshot
SnapshotIsBefore ==
    \A i \in 1..Len(cache) :
        \A k \in EntriesOf(cache[i].agent_name, cache[i].cycle_id) :
            cache[i].profile_snapshot
                = Some(history[cache[i].agent_name][k].before)

\* an appended artifact carries the preferences its agent had before the
\* step, and the artifacts already in the log keep their snapshot
SnapshotTakenAndKept ==
    /\ Len(cache') >= Len(cache)
    /\ \A i \in 1..Len(cache) :
        cache'[i].profile_snapshot = cache[i].profile_snapshot
    /\ \A i \in (Len(cache) + 1)..Len(cache') :
        cache'[i].profile_snapshot = Some(preferences[cache'[i].agent_name])

\* C33: the profile_snapshot of an artifact is its agent's preference vector
\* before the artifact's own proposed change is applied: a history entry
\* recorded for that cycle has the snapshot as its before-snapshot, and later
\* updates never change the snapshot of an artifact already appended.
C33_SnapshotPrecedesOwnChange ==
    /\ []SnapshotIsBefore
    /\ [][SnapshotTakenAndKept]_vars

\* the first agent's artifact of a later cycle, whose snapshot shows the change
\* of an earlier cycle, and for which update recorded an entry
C33_Witness ==
    \E i \in 1..Len(cache) :
        /\ cache[i].agent_name = AGENT_A_NAME
        /\ cache[i].cycle_id = 2
        /\ Len(history[AGENT_A_NAME]) = 2
        /\ EntriesOf(AGENT_A_NAME, 2) = {2}
        /\ cache[i].profile_snapshot = Some(history[AGENT_A_NAME][1].after)
        /\ cache[i].profile_snapshot # Some(DefaultPreferences)

----------------------------------------------------------------------------
(* C34 *)

\* the step is the turn of agent n
TurnOf(n) ==
    /\ pc = (IF n = AGENT_A_NAME THEN "agent_a" ELSE "agent_b")
    /\ pc' # pc

\* the turn of an agent whose answer is malformed leaves both profiles as
\* they are and makes no call to update
MalformedTurnKeepsProfile ==
    \A n \in AgentNames :
        (TurnOf(n) /\ Malformed(n)') =>
            /\ preferences' = preferences
            /\ history' = history
            /\ "update" \notin Range(CalleesOf(n)')

\* the artifact of an agent whose answer is malformed proposes no change
FallbackProposesNothing ==
    \A n \in AgentNames :
        (Malformed(n) /\ ~IsNone(artifacts[n])) =>
            IsNone(Val(artifacts[n]).profile_update)

\* C34: a turn whose think-step output is malformed leaves the agent's
\* preference vector and change history unchanged: the fallback artifact
\* carries no proposed profile change, so update is not called for it.
C34_MalformedTurnKeepsProfile ==
    /\ []FallbackProposesNothing
    /\ [][MalformedTurnKeepsProfile]_vars

\* the second agent's turn has appended a fallback artifact for an answer
\* that proposed a profile change, after the first agent's profile was changed
C34_Witness ==
    /\ raw_output[AGENT_B_NAME] = Some(Unbuildable)
    /\ Malformed(AGENT_B_NAME)
    /\ ~IsNone(artifacts[AGENT_B_NAME])
    /\ CalleesOf(AGENT_B_NAME) = SubSeq(TurnSteps, 1, 4)
    /\ history[AGENT_A_NAME] # <<>>
    /\ history[AGENT_B_NAME] = <<>>

----------------------------------------------------------------------------
(* C35 *)

\* the step builds a Kernel again
Restarted == restarts' # restarts

\* a profile file is written only when there is none, and a Kernel built
\* again holds what the files held
ProfileFileWrittenOnce ==
    \A n \in AgentNames :
        /\ profile_file'[n] # profile_file[n] => IsNone(profile_file[n])
        /\ (Restarted /\ ~IsNone(profile_file[n])) =>
            /\ preferences'[n] = Val(profile_file[n]).preferences
            /\ history'[n] = Val(profile_file[n]).history

\* C35: run_cycle and update change only the profile in memory: the profile
\* file that create_kernel reads is written only when it does not exist yet,
\* so a Kernel created after a restart loads the content of that file,
\* whatever updates were applied in earlier runs.
C35_ProfileFileWrittenOnce == [][ProfileFileWrittenOnce]_vars

\* a Kernel built again on the file of an earlier run, after a cycle in which
\* the first agent's proposed change was applied: the change is not in the
\* profile
C35_Witness ==
    /\ restarts = 1
    /\ current_cycle = base_cycle
    /\ profile_file[AGENT_A_NAME] = Some(save(EarlierProfile(AGENT_A_NAME)))
    /\ preferences[AGENT_A_NAME] = EarlierProfile(AGENT_A_NAME).preferences
    /\ history[AGENT_A_NAME] = EarlierProfile(AGENT_A_NAME).history
    /\ \E i, j \in 1..Len(cache) :
        /\ cache[i].agent_name = AGENT_A_NAME
        /\ HasProposedChanges(cache[i])
        /\ cache[j].agent_name = AGENT_B_NAME
        /\ cache[j].cycle_id = cache[i].cycle_id

----------------------------------------------------------------------------
(* C36 *)

\* the profile of agent n as it stands
ProfileOf(n) ==
    [agent_name |-> n, preferences |-> preferences[n], history |-> history[n]]

\* C36: for every profile reached through update calls, save followed by
\* load on the same path succeeds and yields a profile with the same agent
\* name, the same preference vector and the same change history.
C36_SaveLoadRoundTrip ==
    LET r == load(save(ProfileOf(AGENT_A_NAME)))
    IN  /\ IsNone(r.raised)
        /\ r.profile = Some(ProfileOf(AGENT_A_NAME))

----------------------------------------------------------------------------
(* C37 *)

\* the times id is listed in the type index, over all types
RECURSIVE ListedTimes(_, _)
ListedTimes(id, types) ==
    IF types = <<>> THEN 0
    ELSE Cardinality({k \in 1..Len(by_type[Head(types)]) :
                        by_type[Head(types)][k] = id})
         + ListedTimes(id, Tail(types))

\* the sum of count(content_type) over the types
RECURSIVE CountOver(_)
CountOver(types) ==
    IF types = <<>> THEN 0 ELSE count_of(Head(types)) + CountOver(Tail(types))

\* C37: after any sequence of add_content calls (also with an id already
\* stored, of the same or another type) and reloads, the type index agrees
\* with the store: each stored id is listed exactly once, under the type of
\* its stored entry, so count() is the sum of count(type) over all types.
C37_IndexAgreesWithStore ==
    /\ \A i \in 1..Len(content) :
        /\ ListedTimes(content[i].id, ContentTypes) = 1
        /\ content[i].id \in Range(by_type[content[i].content_type])
    /\ count = CountOver(ContentTypes)

----------------------------------------------------------------------------
(* C38 *)

\* the times id is stored, and the times it is written in the file
StoredTimes(id) == Cardinality({i \in 1..Len(content) : content[i].id = id})
WrittenTimes(id) ==
    Cardinality({i \in 1..Len(content_file) : content_file[i].id = id})

SeedIds == {SeedSamples[k].id : k \in 1..Len(SeedSamples)}

\* no seed id is stored or written twice
SeedAtMostOnce ==
    \A id \in SeedIds : StoredTimes(id) <= 1 /\ WrittenTimes(id) <= 1

\* the step is a call of seed_world_with_samples that returned
Seeded ==
    /\ calls' = <<Call(None, "seed_world_with_samples", None)>>
    /\ IsNone(raised')

\* a seeding that returned leaves every seed id stored once and written
\* once, and changes nothing when every seed id was stored already
SeedingCompletes ==
    Seeded =>
        /\ \A id \in SeedIds : StoredTimes(id)' = 1 /\ WrittenTimes(id)' = 1
        /\ (\A id \in SeedIds : StoredTimes(id) = 1) =>
            UNCHANGED <<content, by_type, content_file>>

\* C38: seed_world_with_samples is idempotent: applied any number of times to
\* a pool, also once per restart on a pool reloaded from its file, it leaves
\* each seed id stored exactly once in memory and written exactly once in the
\* file.
C38_SeedingIsIdempotent ==
    /\ []SeedAtMostOnce
    /\ [][SeedingCompletes]_vars

\* a seeding that returned on a pool in which an earlier seeding, ended by
\* the storage, had left one sample, before another entry was added
C38_Witness ==
    /\ calls = <<Call(None, "seed_world_with_samples", None)>>
    /\ IsNone(raised)
    /\ Len(content) = Len(SeedSamples) + 1
    /\ Len(content_file) = Len(SeedSamples) + 1
    /\ content_file[2].id \notin SeedIds
    /\ \A id \in SeedIds : StoredTimes(id) = 1 /\ WrittenTimes(id) = 1

============================================================================
